---------------------------- MODULE Spec2Model ----------------------------
(***************************************************************************)
(* A model of market_pulse_cloud.py: one run of main() -- credential       *)
(* validation, the staged pipeline (planning, retrieval, curation,         *)
(* verification, history load, synthesis, history save, delivery) and the  *)
(* process exit code -- together with the history file and the chunking    *)
(* transform of send_telegram_message.                                     *)
(*                                                                         *)
(* Texts are sequences of one-character strings, so that splitting on      *)
(* newlines, joining and measuring lengths are computed as the code        *)
(* computes them.                                                          *)
(*                                                                         *)
(* Spec is a whole run of main(). SpecChunk, SpecRetrieval, SpecCurator    *)
(* and SpecVerify start main() at delivery, retrieval, curation and        *)
(* verification and give that stage every input up to a bound. SpecSave    *)
(* does so for save_history, SpecFeed for the articles the feed serves,    *)
(* SpecTags for the section headers of the curator request, and SpecMerge  *)
(* lets the searches of stage1 complete in every order.                    *)
(***************************************************************************)
EXTENDS Integers, Sequences, FiniteSets, TLC

VARIABLES
    environ,             \* names of the environment variables that are set
    pc,                  \* position of main(): the statement to run next
    exitCode,            \* -1 while the process runs, then its exit status
    crashed,             \* "no", or the stage in which an exception escaped
    historyFile,         \* content of history.json
    historyFile0,        \* content of history.json when the run started
    mainstream_queries,  \* main(): first value returned by stage0
    alpha_queries,       \* main(): second value returned by stage0
    search_results,      \* main(): mapping returned by stage1
    benzinga,            \* the articles the professional feed serves
    context,             \* stage2: the section headers of the curator request
    output_text,         \* stage2: response.output_text of the curator request
    analysis,            \* main(): value returned by stage2
    additional,          \* main(): mapping returned by stage3
    history,             \* main(): value returned by load_history
    briefing,            \* main(): text returned by stage4
    chunks,              \* send_telegram_message: chunks still to be posted
    sent,                \* texts posted to the delivery channel, with answers
    result,              \* send_telegram_message: answer to the last post
    calls,               \* external requests issued so far, in order
    outcomes,            \* how each request made so far ended, by name
    fileOps,             \* reads and writes of history.json so far
    trace                \* stage starts and ends, in order

vars == <<environ, benzinga, context, pc, exitCode, crashed, historyFile, historyFile0,
          mainstream_queries, alpha_queries, search_results, output_text,
          analysis, additional, history, briefing, chunks, sent, result, calls,
          outcomes, fileOps, trace>>

---------------------------------------------------------------------------
(* Bounds of the model *)

\* send_telegram_message's max_len (4000 in the source), scaled down so that
\* every text up to MaxMsgLen can be enumerated; the header is scaled with it.
max_len == 4

\* Longest message text enumerated for the chunking transform.
MaxMsgLen == 6

---------------------------------------------------------------------------
(* Texts *)

NL == "\n"

\* The characters of the texts enumerated for the chunking transform.
ChunkAlphabet == {"a", NL}

\* All texts over alphabet A of length at most n.
TextsUpTo(A, n) == UNION {[1..k -> A] : k \in 0..n}

\* Index of the first occurrence of character c in s, 0 if there is none.
FirstIndex(s, c) ==
    IF \E i \in 1..Len(s) : s[i] = c
    THEN CHOOSE i \in 1..Len(s) : s[i] = c /\ \A j \in 1..(i-1) : s[j] # c
    ELSE 0

\* str.split("\n"): the lines of s; the empty text has one (empty) line.
RECURSIVE SplitLines(_)
SplitLines(s) ==
    LET i == FirstIndex(s, NL)
    IN  IF i = 0 THEN <<s>>
        ELSE <<SubSeq(s, 1, i - 1)>> \o SplitLines(SubSeq(s, i + 1, Len(s)))

\* "\n".join(parts)
RECURSIVE JoinLines(_)
JoinLines(parts) ==
    IF parts = <<>> THEN <<>>
    ELSE IF Len(parts) = 1 THEN parts[1]
    ELSE parts[1] \o <<NL>> \o JoinLines(Tail(parts))

\* Concatenation of a sequence of sequences.
RECURSIVE Flatten(_)
Flatten(ss) == IF ss = <<>> THEN <<>> ELSE ss[1] \o Flatten(Tail(ss))

---------------------------------------------------------------------------
(* send_telegram_message: the chunking transform *)

\* The header line "Daily Market Pulse - {now}", scaled to one character.
HeaderLine == <<"D">>

\* full_message = f"Daily Market Pulse - {now}\n\n{message}"
full_message(message) == HeaderLine \o <<NL, NL>> \o message

\* One iteration of the loop over full_message.split("\n"); st is the pair
\* (chunks, current). An empty current is falsy in both tests.
ChunkStep(st, line) ==
    IF Len(st.current) + Len(line) + 1 > max_len
    THEN [chunks  |-> IF st.current # <<>> THEN Append(st.chunks, st.current)
                      ELSE st.chunks,
          current |-> line]
    ELSE [chunks  |-> st.chunks,
          current |-> IF st.current # <<>> THEN st.current \o <<NL>> \o line
                      ELSE line]

\* The loop over the lines, from the state st.
RECURSIVE ChunkLoop(_, _)
ChunkLoop(st, lines) ==
    IF lines = <<>> THEN st
    ELSE ChunkLoop(ChunkStep(st, lines[1]), Tail(lines))

\* The chunks built for a full message that exceeds max_len.
SplitIntoChunks(full) ==
    LET st == ChunkLoop([chunks |-> <<>>, current |-> <<>>], SplitLines(full))
    IN  IF st.current # <<>> THEN Append(st.chunks, st.current) ELSE st.chunks

\* The texts send_telegram_message posts for a message, in order.
TextsToPost(message) ==
    LET full == full_message(message)
    IN  IF Len(full) <= max_len THEN <<full>> ELSE SplitIntoChunks(full)

---------------------------------------------------------------------------
(* Values exchanged with the file system and the services *)

Take(s, n) == SubSeq(s, 1, IF n < Len(s) THEN n ELSE Len(s))   \* s[:n]
Drop(s, n) == SubSeq(s, n + 1, Len(s))                          \* s[n:]

\* A parsed JSON value: an object with its members, or a value of another
\* type (a list, a number) at the top level.
JObject(m) == [type |-> "object", members |-> m]
JList      == [type |-> "list",   members |-> <<>>]
JNumber    == [type |-> "number", members |-> <<>>]

\* dict.get(key, default)
Get(obj, key, default) ==
    IF key \in DOMAIN obj.members THEN obj.members[key] ELSE default

\* A text handed to json.loads: either it does not parse (JSONDecodeError)
\* or it parses to a value.
Garbled      == [wellformed |-> FALSE, value |-> JNumber]
TextOf(v)    == [wellformed |-> TRUE,  value |-> v]
json_loads(doc) == [raised |-> ~doc.wellformed, value |-> doc.value]

\* A history record: {"last_run": ..., "stories": [...], "tickers": [...]}
HistoryRecord(last_run, stories, tickers) ==
    JObject([k \in {"last_run", "stories", "tickers"} |->
        CASE k = "last_run" -> last_run
          [] k = "stories"  -> stories
          [] k = "tickers"  -> tickers])

\* The record load_history returns when it finds no usable file (line 51).
DefaultHistory == HistoryRecord("None", <<>>, <<>>)

\* history.json: absent, or present with some content.
NoFile        == [exists |-> FALSE, content |-> Garbled]
FileWith(doc) == [exists |-> TRUE,  content |-> doc]

---------------------------------------------------------------------------
(* load_history *)

\* The outcome of load_history on a state of the file: the exception that
\* escapes it ("no" when it returns) and the value it returns.
load_history(file) ==
    IF ~file.exists                              \* FileNotFoundError, caught
    THEN [raised |-> "no", value |-> DefaultHistory]
    ELSE LET r == json_loads(file.content)
         IN  IF r.raised                         \* JSONDecodeError, caught
             THEN [raised |-> "no", value |-> DefaultHistory]
             ELSE IF r.value.type # "object"     \* data.get: no such attribute
             THEN [raised |-> "AttributeError", value |-> DefaultHistory]
             ELSE [raised |-> "no", value |-> r.value]

---------------------------------------------------------------------------
(* stage0_generate_queries *)

\* The hardcoded fallback queries (lines 124-141).
DefaultMainstream ==
    << "most important financial market news today global",
       "Asia markets overnight Nikkei Hang Seng moves today",
       "Europe markets DAX economic data today",
       "US pre-market movers earnings surprises today",
       "geopolitical developments affecting markets today",
       "oil gold commodities major price moves today",
       "central bank rate decisions inflation data latest",
       "trade policy tariffs sanctions latest today" >>

DefaultAlpha ==
    << "unusual options activity large block trades today",
       "insider buying selling SEC Form 4 filings notable today",
       "emerging markets currency moves developments today",
       "AI semiconductor infrastructure earnings latest today" >>

FallbackQueries == [mainstream |-> DefaultMainstream, alpha |-> DefaultAlpha]

\* Lines 113-141: what stage0 returns for the text the reasoning service
\* answered with.
stage0_parse(doc) ==
    LET r == json_loads(doc)
    IN  IF r.raised THEN FallbackQueries
        ELSE IF r.value.type = "object"
        THEN LET queries == Take(Get(r.value, "queries", <<>>), 12)
             IN  IF queries # <<>>
                 THEN [mainstream |-> Take(queries, 8),
                       alpha      |-> Drop(queries, 8)]
                 ELSE [mainstream |-> Take(Get(r.value, "mainstream", <<>>), 3),
                       alpha      |-> Take(Get(r.value, "alpha", <<>>), 2)]
        ELSE FallbackQueries

---------------------------------------------------------------------------
(* save_history: headline and ticker extraction *)

LowerLetters == << "a", "b", "c", "d", "e", "f", "g", "h", "i", "j", "k", "l", "m",
                   "n", "o", "p", "q", "r", "s", "t", "u", "v", "w", "x", "y", "z" >>
UpperLetters == << "A", "B", "C", "D", "E", "F", "G", "H", "I", "J", "K", "L", "M",
                   "N", "O", "P", "Q", "R", "S", "T", "U", "V", "W", "X", "Y", "Z" >>
Whitespace   == {" ", "\t", NL}

Range(f) == {f[i] : i \in DOMAIN f}
IsAlphaChar(c) == c \in Range(LowerLetters) \cup Range(UpperLetters)

\* str.isalpha(): non-empty and letters only
IsAlpha(s) == s # <<>> /\ \A i \in 1..Len(s) : IsAlphaChar(s[i])

\* str.upper()
UpperChar(c) ==
    IF c \in Range(LowerLetters)
    THEN UpperLetters[CHOOSE i \in 1..Len(LowerLetters) : LowerLetters[i] = c]
    ELSE c
ToUpper(s) == [i \in 1..Len(s) |-> UpperChar(s[i])]

\* str.lstrip(chars), str.rstrip(chars), str.strip()
RECURSIVE LStrip(_, _)
LStrip(s, cs) == IF s # <<>> /\ s[1] \in cs THEN LStrip(Tail(s), cs) ELSE s
RECURSIVE RStrip(_, _)
RStrip(s, cs) ==
    IF s # <<>> /\ s[Len(s)] \in cs THEN RStrip(SubSeq(s, 1, Len(s) - 1), cs) ELSE s
Strip(s) == RStrip(LStrip(s, Whitespace), Whitespace)

\* str.split(): the maximal runs of non-whitespace characters
RECURSIVE SplitWords(_, _)
SplitWords(s, word) ==
    IF s = <<>> THEN (IF word = <<>> THEN <<>> ELSE <<word>>)
    ELSE IF s[1] \in Whitespace
    THEN (IF word = <<>> THEN <<>> ELSE <<word>>) \o SplitWords(Tail(s), <<>>)
    ELSE SplitWords(Tail(s), Append(word, s[1]))
Words(s) == SplitWords(s, <<>>)

\* line.index("**", from): position of the first "**" at or after from
\* (1-based), 0 if there is none
FindBold(line, from) ==
    LET hits == {i \in from..(Len(line) - 1) : line[i] = "*" /\ line[i + 1] = "*"}
    IN  IF hits = {} THEN 0 ELSE CHOOSE i \in hits : \A j \in hits : i <= j

\* line.count("**"): occurrences that do not overlap, from position from
RECURSIVE CountBold(_, _)
CountBold(line, from) ==
    LET i == FindBold(line, from)
    IN  IF i = 0 THEN 0 ELSE 1 + CountBold(line, i + 2)

\* Lines 58-63: the headlines one line contributes (none or one)
HeadlinesOfLine(line) ==
    IF CountBold(line, 1) >= 2
    THEN LET start    == FindBold(line, 1) + 2
             end      == FindBold(line, start)
             headline == Strip(SubSeq(line, start, end - 1))
         IN  IF Len(headline) > 15 /\ \E i \in 1..Len(headline) : headline[i] = ":"
             THEN <<headline>> ELSE <<>>
    ELSE <<>>

\* Lines 56-63
RECURSIVE HeadlinesOfLines(_)
HeadlinesOfLines(lines) ==
    IF lines = <<>> THEN <<>>
    ELSE HeadlinesOfLine(lines[1]) \o HeadlinesOfLines(Tail(lines))
ExtractStories(text) == HeadlinesOfLines(SplitLines(text))

\* Lines 65-69: the tickers in the order first seen, without repetition
RECURSIVE TickersOfWords(_, _)
TickersOfWords(words, tickers) ==
    IF words = <<>> THEN tickers
    ELSE LET word  == words[1]
             clean == RStrip(LStrip(word, {"$"}), {".", ",", ";", ":", "!", "(", ")"})
         IN  IF /\ word # <<>> /\ word[1] = "$"
                /\ IsAlpha(clean) /\ 1 <= Len(clean) /\ Len(clean) <= 5
                /\ ToUpper(clean) \notin Range(tickers)
             THEN TickersOfWords(Tail(words), Append(tickers, ToUpper(clean)))
             ELSE TickersOfWords(Tail(words), tickers)

\* The order list.sort() puts upper-case words in
CharRank(c) == CHOOSE i \in 1..Len(UpperLetters) : UpperLetters[i] = c
RECURSIVE TextLess(_, _)
TextLess(a, b) ==
    IF a = <<>> THEN b # <<>>
    ELSE IF b = <<>> THEN FALSE
    ELSE IF a[1] = b[1] THEN TextLess(Tail(a), Tail(b))
    ELSE CharRank(a[1]) < CharRank(b[1])

RECURSIVE InsertSorted(_, _)
InsertSorted(x, sorted) ==
    IF sorted = <<>> THEN <<x>>
    ELSE IF TextLess(x, sorted[1]) THEN <<x>> \o sorted
    ELSE <<sorted[1]>> \o InsertSorted(x, Tail(sorted))
\* A variant that leaves the list in the order found
TextsAsFound(ts) == ts

RECURSIVE SortTexts(_)
SortTexts(ts) == IF ts = <<>> THEN <<>> ELSE InsertSorted(ts[1], SortTexts(Tail(ts)))

\* Lines 64-70
ExtractTickers(text) == SortTexts(TickersOfWords(Words(text), <<>>))

\* Lines 71-77: the record save_history writes for a briefing at time now
save_history(text, now) == HistoryRecord(now, ExtractStories(text), ExtractTickers(text))

---------------------------------------------------------------------------
(* stage1_tavily_searches *)

\* The fixed roster, in the order the searches are run (lines 241-289, 306-318).
FixedSearches ==
    << "global_markets", "geopolitics_macro", "fintwit_movers",
       "unusual_options", "insider_trades" >>

\* f"gpt_mainstream_{i}" and f"gpt_alpha_{i}" for the indices enumerate() yields.
GptMainstreamNames ==
    << "gpt_mainstream_0", "gpt_mainstream_1", "gpt_mainstream_2", "gpt_mainstream_3",
       "gpt_mainstream_4", "gpt_mainstream_5", "gpt_mainstream_6", "gpt_mainstream_7" >>
GptAlphaNames == << "gpt_alpha_0", "gpt_alpha_1", "gpt_alpha_2", "gpt_alpha_3" >>

\* A variant of SearchNames that numbers the alpha queries like the mainstream
\* ones
SearchNamesShared(mq, aq) ==
    FixedSearches \o [i \in 1..Len(mq) |-> GptMainstreamNames[i]]
                  \o [i \in 1..Len(aq) |-> GptMainstreamNames[i]]

\* The names of the searches one run makes, in order (lines 304-346).
SearchNames(mq, aq) ==
    FixedSearches \o [i \in 1..Len(mq) |-> GptMainstreamNames[i]]
                  \o [i \in 1..Len(aq) |-> GptAlphaNames[i]]

\* A candidate returned for a search.
Item(name) == [origin |-> name]

\* How a search request ends: the call raises (timeout, connection or HTTP
\* error), its answer is not a mapping, it holds no result, it holds one
SearchFailures == {"timeout", "bad_response"}
SearchOutcomes == SearchFailures \cup {"none", "hit"}

\* How the feed request ends: requests.get raises, the status is not 200, the
\* body is not the JSON expected, it holds no article, it holds one
FeedFailures == {"timeout", "http_error", "bad_response"}
FeedOutcomes == FeedFailures \cup {"none", "hit"}

\* A variant of run_search without the except clause
run_search_uncaught(name, outcome) ==
    IF outcome \in SearchFailures THEN [raised |-> TRUE, results |-> <<>>]
    ELSE [raised |-> FALSE,
          results |-> IF outcome = "hit" THEN <<Item(name)>> ELSE <<>>]

\* run_search (lines 291-302): whether an exception leaves it and the results
\* it returns, for a request that ends with outcome. tavily_client.search
\* raising (line 296) and response.get failing (line 297) are both inside the
\* try; the except clause (lines 300-302) returns the empty list.
run_search(name, outcome) ==
    LET body == IF outcome \in SearchFailures
                THEN [raised |-> TRUE, results |-> <<>>]
                ELSE [raised |-> FALSE,
                      results |-> IF outcome = "hit" THEN <<Item(name)>> ELSE <<>>]
    IN  IF body.raised THEN [raised |-> FALSE, results |-> <<>>] ELSE body

\* str.lower()
LowerOf ==
    [c \in Range(UpperLetters) |->
        LowerLetters[CHOOSE i \in 1..Len(UpperLetters) : UpperLetters[i] = c]]
LowerChar(c) == IF c \in DOMAIN LowerOf THEN LowerOf[c] ELSE c
ToLower(s) == [i \in 1..Len(s) |-> LowerChar(s[i])]

\* kw in s
Contains(kw, s) ==
    \E i \in 1..(Len(s) - Len(kw) + 1) : \A j \in 1..Len(kw) : s[i + j - 1] = kw[j]

\* Lines 179-184
SKIP_KEYWORDS ==
    << << "p", "r", "o", "s", "p", "e", "c", "t", "u", "s", " ", "s", "u", "p", "p", "l",
          "e", "m", "e", "n", "t" >>,
       << "f", "i", "l", "e", "d", " ", "w", "i", "t", "h", " ", "s", "e", "c" >>,
       << "s", "h", "e", "l", "f", " ", "r", "e", "g", "i", "s", "t", "r", "a", "t", "i",
          "o", "n" >>,
       << "i", "n", "t", "e", "n", "d", "s", " ", "t", "o", " ", "o", "f", "f", "e",
          "r" >>,
       << "p", "r", "i", "c", "e", "s", " ", "o", "f", "f", "e", "r", "i", "n", "g" >>,
       << "a", "n", "n", "o", "u", "n", "c", "e", "s", " ", "o", "f", "f", "e", "r", "i",
          "n", "g" >>,
       << "a", "n", "n", "o", "u", "n", "c", "e", "s", " ", "p", "r", "i", "c", "i", "n",
          "g" >>,
       << "c", "l", "o", "s", "e", "s", " ", "o", "f", "f", "e", "r", "i", "n", "g" >>,
       << "f", "i", "l", "e", "s", " ", "p", "r", "o", "s", "p", "e", "c", "t", "u",
          "s" >>,
       << "s", "u", "p", "p", "l", "e", "m", "e", "n", "t", "a", "l", " ", "l", "i", "s",
          "t", "i", "n", "g" >>,
       << "f", "o", "r", "m", " ", "8", "-", "k" >>,
       << "f", "o", "r", "m", " ", "1", "0", "-", "k" >>,
       << "f", "o", "r", "m", " ", "1", "0", "-", "q" >> >>

\* An article of the feed: the keys the adapter reads, here title, teaser,
\* body and url (author, created, updated and stocks are absent, so that
\* a.get returns their defaults)
Article(title, teaser, body, url) ==
    [title |-> title, teaser |-> teaser, body |-> body, url |-> url]

\* A variant of the denylist test that looks at the title only
SkippedByTitle(a) ==
    \E k \in 1..Len(SKIP_KEYWORDS) : Contains(SKIP_KEYWORDS[k], ToLower(a.title))

\* Lines 187-190: any(kw in title_lower + " " + teaser_lower for kw in ...)
Skipped(a) ==
    LET joined == ToLower(a.title) \o <<" ">> \o ToLower(a.teaser)
    IN  \E k \in 1..Len(SKIP_KEYWORDS) : Contains(SKIP_KEYWORDS[k], joined)

\* re.sub(r'<[^>]+>', '', text): from the left, a "<" followed by at least one
\* character other than ">" and then a ">" is removed up to the first ">"
RECURSIVE StripTags(_)
StripTags(s) ==
    IF s = <<>> THEN <<>>
    ELSE LET closes == {j \in 3..Len(s) : s[j] = ">"}
         IN  IF s[1] = "<" /\ Len(s) >= 3 /\ s[2] # ">" /\ closes # {}
             THEN StripTags(Drop(s, CHOOSE j \in closes : \A k \in closes : j <= k))
             ELSE <<s[1]>> \o StripTags(Tail(s))

\* _clean_html (lines 149-153)
clean_html(text) == IF text = <<>> THEN <<>> ELSE Strip(StripTags(text))

\* Line 198: the body snippet keeps 400 characters
SnippetLen == 400

\* " | ".join(parts)
RECURSIVE JoinParts(_)
JoinParts(parts) ==
    IF parts = <<>> THEN <<>>
    ELSE IF Len(parts) = 1 THEN parts[1]
    ELSE parts[1] \o <<" ", "|", " ">> \o JoinParts(Tail(parts))

SourceLine == << "S", "o", "u", "r", "c", "e", ":", " ", "B", "e", "n", "z", "i", "n", "g", "a" >>

\* Lines 196-221: one article in the shape of a search result
Normalized(a) ==
    LET title        == clean_html(a.title)
        teaser       == clean_html(a.teaser)
        body_snippet == IF a.body # <<>> THEN Take(clean_html(a.body), SnippetLen)
                        ELSE <<>>
        content_parts ==
            (IF teaser # <<>> THEN <<teaser>>
             ELSE IF body_snippet # <<>> THEN <<body_snippet>> ELSE <<>>)
            \o <<SourceLine>>
    IN  [title |-> title, url |-> a.url, content |-> JoinParts(content_parts),
         published_date |-> <<>>]

\* Lines 185-224: the articles that pass the denylist, normalized, in order
NormalizedArticles(articles) ==
    LET filtered == SelectSeq(articles, LAMBDA a : ~Skipped(a))
    IN  [i \in 1..Len(filtered) |-> Normalized(filtered[i])]

\* fetch_benzinga_news (lines 156-230), as far as the run depends on it: skipped
\* without the key (158-160); inside the try, requests.get may raise (170), a
\* status other than 200 returns the empty list (171-173), resp.json() or the
\* reading of the articles may raise (175-220); the except clause (228-230)
\* returns the empty list.
fetch_benzinga_news(env, outcome) ==
    IF "BENZINGA_API_KEY" \notin env THEN [raised |-> FALSE, results |-> <<>>]
    ELSE LET body ==
                 CASE outcome \in {"timeout", "bad_response"} ->
                          [raised |-> TRUE, results |-> <<>>]
                   [] outcome = "http_error" -> [raised |-> FALSE, results |-> <<>>]
                   [] outcome = "none" -> [raised |-> FALSE, results |-> <<>>]
                   [] outcome = "hit" ->
                          [raised |-> FALSE, results |-> NormalizedArticles(benzinga)]
         IN  IF body.raised THEN [raised |-> FALSE, results |-> <<>>] ELSE body

\* The requests stage1 makes: one per search name, and the feed pull when the
\* key is set
Stage1Requests(mq, aq, env) ==
    Range(SearchNames(mq, aq))
    \cup (IF "BENZINGA_API_KEY" \in env THEN {"benzinga_pro"} ELSE {})

\* Whether an exception leaves stage1 when each request ends with outcome[name]
stage1_raises(mq, aq, outcome, env) ==
    \/ \E n \in Range(SearchNames(mq, aq)) : run_search(n, outcome[n]).raised
    \/ /\ "BENZINGA_API_KEY" \in env
       /\ fetch_benzinga_news(env, outcome["benzinga_pro"]).raised

\* A variant of stage1_tavily_searches that keeps no entry for a failed search
stage1_drops_failed(mq, aq, outcome, env) ==
    LET names   == SearchNames(mq, aq)
        feed    == IF "BENZINGA_API_KEY" \in env
                   THEN fetch_benzinga_news(env, outcome["benzinga_pro"]).results
                   ELSE fetch_benzinga_news(env, "none").results
        keys    == {n \in Range(names) : outcome[n] \notin SearchFailures}
                   \cup (IF feed # <<>> THEN {"benzinga_pro"} ELSE {})
    IN  [n \in keys |->
            IF n = "benzinga_pro" THEN feed ELSE run_search(n, outcome[n]).results]

\* The mapping stage1 returns (lines 304-354) when each request ends with
\* outcome[name]: one entry per search name (all_results[name] = results), and
\* the feed's articles under benzinga_pro if there are any (lines 349-352)
stage1_tavily_searches(mq, aq, outcome, env) ==
    LET names   == SearchNames(mq, aq)
        feed    == IF "BENZINGA_API_KEY" \in env
                   THEN fetch_benzinga_news(env, outcome["benzinga_pro"]).results
                   ELSE fetch_benzinga_news(env, "none").results
        keys    == Range(names) \cup (IF feed # <<>> THEN {"benzinga_pro"} ELSE {})
    IN  [n \in keys |->
            IF n = "benzinga_pro" THEN feed ELSE run_search(n, outcome[n]).results]

\* A variant of Stage1Calls that requests the fixed searches a second time
Stage1CallsRetried(mq, aq, env) ==
    LET names == SearchNames(mq, aq)
    IN  [i \in 1..Len(names) |-> <<"search", names[i]>>]
        \o [i \in 1..Len(FixedSearches) |-> <<"search", FixedSearches[i]>>]
        \o (IF "BENZINGA_API_KEY" \in env THEN << <<"benzinga", "benzinga_pro">> >>
            ELSE <<>>)

\* The requests stage1 issues, in order.
Stage1Calls(mq, aq, env) ==
    LET names == SearchNames(mq, aq)
    IN  [i \in 1..Len(names) |-> <<"search", names[i]>>]
        \o (IF "BENZINGA_API_KEY" \in env THEN << <<"benzinga", "benzinga_pro">> >>
            ELSE <<>>)

---------------------------------------------------------------------------
(* stage2_first_pass *)

\* The characters of a search name
Chars(name) ==
    CASE name = "global_markets" -> << "g", "l", "o", "b", "a", "l", "_", "m", "a", "r", "k", "e", "t", "s" >>
      [] name = "geopolitics_macro" -> << "g", "e", "o", "p", "o", "l", "i", "t", "i", "c", "s", "_", "m", "a", "c", "r", "o" >>
      [] name = "fintwit_movers" -> << "f", "i", "n", "t", "w", "i", "t", "_", "m", "o", "v", "e", "r", "s" >>
      [] name = "unusual_options" -> << "u", "n", "u", "s", "u", "a", "l", "_", "o", "p", "t", "i", "o", "n", "s" >>
      [] name = "insider_trades" -> << "i", "n", "s", "i", "d", "e", "r", "_", "t", "r", "a", "d", "e", "s" >>
      [] name = "gpt_mainstream_0" -> << "g", "p", "t", "_", "m", "a", "i", "n", "s", "t", "r", "e", "a", "m", "_", "0" >>
      [] name = "gpt_mainstream_1" -> << "g", "p", "t", "_", "m", "a", "i", "n", "s", "t", "r", "e", "a", "m", "_", "1" >>
      [] name = "gpt_mainstream_2" -> << "g", "p", "t", "_", "m", "a", "i", "n", "s", "t", "r", "e", "a", "m", "_", "2" >>
      [] name = "gpt_mainstream_3" -> << "g", "p", "t", "_", "m", "a", "i", "n", "s", "t", "r", "e", "a", "m", "_", "3" >>
      [] name = "gpt_mainstream_4" -> << "g", "p", "t", "_", "m", "a", "i", "n", "s", "t", "r", "e", "a", "m", "_", "4" >>
      [] name = "gpt_mainstream_5" -> << "g", "p", "t", "_", "m", "a", "i", "n", "s", "t", "r", "e", "a", "m", "_", "5" >>
      [] name = "gpt_mainstream_6" -> << "g", "p", "t", "_", "m", "a", "i", "n", "s", "t", "r", "e", "a", "m", "_", "6" >>
      [] name = "gpt_mainstream_7" -> << "g", "p", "t", "_", "m", "a", "i", "n", "s", "t", "r", "e", "a", "m", "_", "7" >>
      [] name = "gpt_alpha_0" -> << "g", "p", "t", "_", "a", "l", "p", "h", "a", "_", "0" >>
      [] name = "gpt_alpha_1" -> << "g", "p", "t", "_", "a", "l", "p", "h", "a", "_", "1" >>
      [] name = "gpt_alpha_2" -> << "g", "p", "t", "_", "a", "l", "p", "h", "a", "_", "2" >>
      [] name = "gpt_alpha_3" -> << "g", "p", "t", "_", "a", "l", "p", "h", "a", "_", "3" >>
      [] name = "benzinga_pro" -> << "b", "e", "n", "z", "i", "n", "g", "a", "_", "p", "r", "o" >>

\* Lines 366-368: the substrings that mark a category
SocialTags   == {<< "s", "o", "c", "i", "a", "l" >>, << "t", "w", "i", "t", "t", "e", "r" >>, << "f", "i", "n", "t", "w", "i", "t" >>, << "r", "e", "d", "d", "i", "t" >>, << "w", "s", "b" >>}
AlphaTags    == {<< "a", "l", "p", "h", "a" >>,
                 << "o", "p", "t", "i", "o", "n", "s" >>,
                 << "i", "n", "s", "i", "d", "e", "r" >>,
                 << "s", "h", "o", "r", "t" >>}
BenzingaTag  == << "b", "e", "n", "z", "i", "n", "g", "a" >>

\* A variant that gives every category the default tag
source_tag_default(category) == "MAINSTREAM"

\* Lines 366-376: the provenance tag of a category
source_tag(category) ==
    LET is_social   == \E tag \in SocialTags : Contains(tag, Chars(category))
        is_alpha    == \E tag \in AlphaTags : Contains(tag, Chars(category))
        is_benzinga == Contains(BenzingaTag, Chars(category))
    IN  IF is_social THEN "SOCIAL/FINTWIT"
        ELSE IF is_benzinga THEN "BENZINGA PRO"
        ELSE IF is_alpha THEN "ALPHA/EDGE"
        ELSE "MAINSTREAM"

\* Lines 364-377: one section header per entry of the mapping, in the order the
\* entries were stored (the searches in the order of names, then the feed)
context_parts(results, names) ==
    LET order == SelectSeq(names \o << "benzinga_pro" >>,
                           LAMBDA n : n \in DOMAIN results)
    IN  [i \in 1..Len(order) |->
            [category |-> order[i], source_tag |-> source_tag(order[i])]]

\* Line 448
EmptyAnalysis ==
    JObject([k \in {"top_stories", "dig_deeper", "fact_check"} |-> <<>>])

\* A response text of the curator request: direct is the text as json.loads
\* sees it, hasSpan says whether it holds a "{" before a later "}", and span is
\* the text between the first "{" and the last "}" as json.loads sees it.
CuratorText(direct, hasSpan, span) ==
    [direct |-> direct, hasSpan |-> hasSpan, span |-> span]

\* Lines 436-448
stage2_parse(text) ==
    LET d == json_loads(text.direct)
    IN  IF ~d.raised THEN d.value
        ELSE IF text.hasSpan /\ ~json_loads(text.span).raised
        THEN json_loads(text.span).value
        ELSE EmptyAnalysis

\* The characters of the curator's answers. Each stands for a piece of text:
\* the two braces of a top-level object for themselves, "w" for a word of
\* prose, "3" for a digit, and inside an object "t" for a story of
\* top_stories, "d" for a target of dig_deeper, "b" for such a target without a
\* search_query, "m" for a string where a target is expected, "f" for a target
\* of fact_check (the member names, brackets and commas are left out).
ProseChars == {"w", "{", "}"}
EntryChars == {"t", "d", "b", "m", "f"}

\* The entry a character stands for; dict says whether it is a JSON object
EntryOf(c) ==
    CASE c = "t" -> [title |-> "story", category |-> "alpha"]
      [] c = "d" -> [dict |-> TRUE, topic |-> "topic",
                     search_query |-> "deep query", why |-> "why"]
      [] c = "b" -> [dict |-> TRUE, topic |-> "topic", search_query |-> "", why |-> "why"]
      [] c = "m" -> [dict |-> FALSE, topic |-> "", search_query |-> "", why |-> ""]
      [] c = "f" -> [dict |-> TRUE, claim |-> "claim", original_source |-> "x.com",
                     verify_query |-> "verify query"]

\* The member an entry belongs to, and the members in the order the prompt
\* gives them (lines 422-433)
MemberOf(c) ==
    CASE c = "t" -> "top_stories"
      [] c \in {"d", "b", "m"} -> "dig_deeper"
      [] c = "f" -> "fact_check"
MemberRank(c) == CASE c = "t" -> 1 [] c \in {"d", "b", "m"} -> 2 [] c = "f" -> 3

\* body is what stands between the braces of a payload: entries only, member
\* after member
IsBody(body) ==
    /\ \A i \in 1..Len(body) : body[i] \in EntryChars
    /\ \A i, j \in 1..Len(body) : i < j => MemberRank(body[i]) <= MemberRank(body[j])

\* The object a payload text with this body parses to; {} has no members
PayloadOf(body) ==
    IF body = <<>> THEN JObject(<<>>)
    ELSE JObject([k \in {"top_stories", "dig_deeper", "fact_check"} |->
            LET mine == SelectSeq(body, LAMBDA c : MemberOf(c) = k)
            IN  [i \in 1..Len(mine) |-> EntryOf(mine[i])]])

\* A curator payload with one story, one dig-deeper and one fact-check target
SamplePayload == PayloadOf(<< "t", "d", "f" >>)

\* A curator payload whose dig_deeper list holds a string instead of an object
MalformedPayload == PayloadOf(<< "m" >>)

\* What json.loads sees in such a text: a number, an object, or no JSON
Document(chars) ==
    IF chars # <<>> /\ \A i \in 1..Len(chars) : chars[i] = "3" THEN TextOf(JNumber)
    ELSE IF /\ Len(chars) >= 2
            /\ chars[1] = "{"
            /\ chars[Len(chars)] = "}"
            /\ IsBody(SubSeq(chars, 2, Len(chars) - 1))
    THEN TextOf(PayloadOf(SubSeq(chars, 2, Len(chars) - 1)))
    ELSE Garbled

\* str.find and str.rfind of one character: its first and last position,
\* counted from 0, and -1 if the text does not hold it
Find(text, c) ==
    LET at == {i \in 1..Len(text) : text[i] = c}
    IN  IF at = {} THEN -1 ELSE (CHOOSE i \in at : \A j \in at : i <= j) - 1
RFind(text, c) ==
    LET at == {i \in 1..Len(text) : text[i] = c}
    IN  IF at = {} THEN -1 ELSE (CHOOSE i \in at : \A j \in at : i >= j) - 1

\* text[start:end] for 0 <= start <= end <= len(text)
Slice(text, start, end) == SubSeq(text, start + 1, end)

\* Lines 437-444: what stage2_first_pass reads in the answer text chars
ReadCurator(chars) ==
    LET start == Find(chars, "{")
        end   == RFind(chars, "}") + 1
        found == start >= 0 /\ end > start
    IN  CuratorText(Document(chars), found,
                    IF found THEN Document(Slice(chars, start, end)) ELSE Garbled)

\* The value stage2_first_pass returns for the answer text chars
stage2_first_pass(chars) == stage2_parse(ReadCurator(chars))

---------------------------------------------------------------------------
(* stage3_verify_and_deepen *)

\* f"deep_{i}" and f"verify_{i}" (lines 485, 510)
DeepKeys   == << "deep_0", "deep_1", "deep_2", "deep_3", "deep_4", "deep_5" >>
VerifyKeys == << "verify_0", "verify_1", "verify_2", "verify_3", "verify_4", "verify_5" >>

\* A variant of DeepTargets without the cap
DeepTargetsUncapped(a) == Get(a, "dig_deeper", <<>>)

\* The capped targets (lines 472, 495)
DeepTargets(a)   == Take(Get(a, "dig_deeper", <<>>), 4)
VerifyTargets(a) == Take(Get(a, "fact_check", <<>>), 3)

\* The capped targets in the order the two loops visit them, each with its key,
\* whether it is a JSON object (item.get exists) and the query it carries
Targets(a) ==
    [i \in 1..Len(DeepTargets(a)) |->
        [key |-> DeepKeys[i], dict |-> DeepTargets(a)[i].dict,
         query |-> DeepTargets(a)[i].search_query]]
    \o [i \in 1..Len(VerifyTargets(a)) |->
        [key |-> VerifyKeys[i], dict |-> VerifyTargets(a)[i].dict,
         query |-> VerifyTargets(a)[i].verify_query]]

\* Position of the first target that is not an object (item.get raises outside
\* the try, lines 473 and 496), 0 if every target is one
FirstMalformed(a) ==
    LET bad == {i \in 1..Len(Targets(a)) : ~Targets(a)[i].dict}
    IN  IF bad = {} THEN 0 ELSE CHOOSE i \in bad : \A j \in bad : i <= j

\* The keys of the targets that carry a query, hence are searched
SearchedDeep(a) ==
    {DeepKeys[i] : i \in {j \in 1..Len(DeepTargets(a)) : DeepTargets(a)[j].search_query # ""}}
SearchedVerify(a) ==
    {VerifyKeys[i] : i \in {j \in 1..Len(VerifyTargets(a)) : VerifyTargets(a)[j].verify_query # ""}}

IndexOf(seq, x) == CHOOSE i \in 1..Len(seq) : seq[i] = x

\* What a follow-up search returned: nothing, or one result
FollowUp(key, outcome) == IF outcome = "hit" THEN <<Item(key)>> ELSE <<>>

\* A variant of Verified that needs no source
VerifiedAlways(sources) == Len(sources) >= 0

\* Line 509: verified = len(sources) > 0
Verified(sources) == Len(sources) > 0

\* A variant of stage3_verify_and_deepen whose loops end at the first search
\* that fails
stage3_stops_at_failure(a, outcome) ==
    LET Before(keys, searched, k) ==
            \A j \in searched :
                outcome[j] \in SearchFailures => IndexOf(keys, k) < IndexOf(keys, j)
        deep   == {k \in SearchedDeep(a)   : Before(DeepKeys, SearchedDeep(a), k)}
        verify == {k \in SearchedVerify(a) : Before(VerifyKeys, SearchedVerify(a), k)}
    IN  [k \in deep \cup verify |->
            IF k \in deep
            THEN LET item == DeepTargets(a)[IndexOf(DeepKeys, k)]
                 IN  [topic   |-> item.topic,
                      why     |-> item.why,
                      results |-> FollowUp(k, outcome[k])]
            ELSE LET item    == VerifyTargets(a)[IndexOf(VerifyKeys, k)]
                     sources == FollowUp(k, outcome[k])
                 IN  [claim            |-> item.claim,
                      original_source  |-> item.original_source,
                      verified         |-> Verified(sources),
                      credible_sources |-> sources]]

\* The mapping stage3 returns (lines 467-521) when the follow-up search of
\* each searched target answered with outcome[key]
stage3_verify_and_deepen(a, outcome) ==
    LET deep   == {k \in SearchedDeep(a)   : outcome[k] \notin SearchFailures}
        verify == {k \in SearchedVerify(a) : outcome[k] \notin SearchFailures}
    IN  [k \in deep \cup verify |->
            IF k \in deep
            THEN LET item == DeepTargets(a)[IndexOf(DeepKeys, k)]
                 IN  [topic   |-> item.topic,
                      why     |-> item.why,
                      results |-> FollowUp(k, outcome[k])]
            ELSE LET item    == VerifyTargets(a)[IndexOf(VerifyKeys, k)]
                     sources == FollowUp(k, outcome[k])
                 IN  [claim            |-> item.claim,
                      original_source  |-> item.original_source,
                      verified         |-> Verified(sources),
                      credible_sources |-> sources]]

\* The requests stage3 issues, in order, up to the first malformed target
Stage3Calls(a) ==
    LET t    == Targets(a)
        last == IF FirstMalformed(a) = 0 THEN Len(t) ELSE FirstMalformed(a) - 1
        RECURSIVE CallsFrom(_)
        CallsFrom(i) ==
            IF i > last THEN <<>>
            ELSE (IF t[i].query # "" THEN << <<"search", t[i].key>> >> ELSE <<>>)
                 \o CallsFrom(i + 1)
    IN  CallsFrom(1)

---------------------------------------------------------------------------
(* The inputs enumerated for a run *)

\* main(): the required variables (line 663) and the optional one (line 670)
RequiredVars == {"TELEGRAM_BOT_TOKEN", "TELEGRAM_CHAT_ID", "OPENAI_API_KEY", "TAVILY_API_KEY"}
OptionalVars == {"BENZINGA_API_KEY"}

\* A headline and tickers saved by an earlier run: "Oil slides: OPEC adds", XOM
PrevHeadline == << "O", "i", "l", " ", "s", "l", "i", "d", "e", "s", ":", " ", "O", "P", "E", "C",
       " ", "a", "d", "d", "s" >>
PreviousRecord == HistoryRecord("prev", <<PrevHeadline>>, << <<"X", "O", "M">> >>)

\* The states history.json is found in: missing, truncated, a JSON list, a JSON
\* number, an object without the keys, the record of an earlier run
HistoryFiles ==
    { NoFile, FileWith(Garbled), FileWith(TextOf(JList)), FileWith(TextOf(JNumber)),
      FileWith(TextOf(JObject(<<>>))), FileWith(TextOf(PreviousRecord)) }

\* Query strings the reasoning service may answer with
GptQueryPool ==
    << "gpt query 1", "gpt query 2", "gpt query 3", "gpt query 4", "gpt query 5",
       "gpt query 6", "gpt query 7", "gpt query 8", "gpt query 9", "gpt query 10",
       "gpt query 11", "gpt query 12", "gpt query 13" >>

\* How many query strings the planner's answers hold
PlannerCounts == {0, 1, 9, 12, 13}

\* An answer of the reasoning service: the request raised, or it returned a text
Raised       == [error |-> TRUE,  text |-> Garbled]
Answered(t)  == [error |-> FALSE, text |-> t]

\* The same for a request whose answers are texts of characters
Unreachable  == [error |-> TRUE,  text |-> <<>>]

\* How the request of a reasoning stage ended, as outcomes records it
Ended(stage, resp) == stage :> (IF resp.error THEN "raised" ELSE "answered")

\* The answers to the planner's request: unreachable, not JSON, a JSON list, an
\* object with n queries, an object with mainstream/alpha lists instead
PlannerResponses ==
    { Raised, Answered(Garbled), Answered(TextOf(JList)) }
    \cup { Answered(TextOf(JObject([k \in {"queries"} |-> Take(GptQueryPool, n)]))) :
             n \in PlannerCounts }
    \cup { Answered(TextOf(JObject([k \in {"mainstream", "alpha"} |->
                                      Take(GptQueryPool, 4)]))) }

\* The answers to the curator's request: unreachable; a payload; a payload with
\* a malformed target; prose without a payload; a JSON number
CuratorResponses ==
    { Unreachable,
      Answered(<< "{", "t", "d", "f", "}" >>),
      Answered(<< "{", "m", "}" >>),
      Answered(<< "w" >>),
      Answered(<< "3" >>) }

\* How a follow-up search of stage3 ends
FollowUpOutcomes == {"timeout", "none", "hit"}

\* Briefing texts the synthesis request may answer with: one that fits a single
\* message, one of several short lines, one with a headline and tickers
ShortBriefing == << "a" >>
LinesBriefing == << "a", "a", "\n", "a", "a" >>
StoryBriefing == << "*", "*", "F", "e", "d", " ", "c", "u", "t", "s", " ", "r", "a", "t", "e", "s",
       ":", " ", "2", "5", "b", "p", "*", "*", " ", "$", "a", "a", "p", "l", " ", "u",
       "p", ",", " ", "$", "M", "S", "F", "T", ".", "\n", "K", "e", "y", " ", "W", "a",
       "t", "c", "h", ":", " ", "$", "T", "O", "O", "L", "O", "N", "G" >>
BriefingSamples == {ShortBriefing, LinesBriefing, StoryBriefing}

\* Answers of the delivery channel to one post
PostAnswers == {"accepted", "rejected", "timeout"}

\* Articles of the professional feed
\* Neither tags nor denylisted phrases
PlainArticle ==
    Article(<< "A", "c", "m", "e", " ", "b", "e", "a", "t", "s" >>,
            << "S", "h", "a", "r", "e", "s", " ", "u", "p" >>,
            <<>>,
            << "a", "1" >>)
\* Tags in the title and the body, no teaser
TaggedArticle ==
    Article(<< "<", "b", ">", "A", "c", "m", "e", "<", "/", "b", ">", " ", "u", "p" >>,
            <<>>,
            << "<", "p", ">", "B", "o", "d", "y", "<", "/", "p", ">", " ", "t", "e", "x",
               "t" >>,
            << "a", "2" >>)
\* A denylisted phrase in the title, in mixed case
FilingTitleArticle ==
    Article(<< "A", "c", "m", "e", " ", "F", "i", "l", "e", "s", " ", "P", "r", "o", "s",
               "p", "e", "c", "t", "u", "s" >>,
            << "S", "h", "a", "r", "e", "s", " ", "u", "p" >>,
            <<>>,
            << "a", "3" >>)
\* A denylisted phrase in the teaser, in upper case
FilingTeaserArticle ==
    Article(<< "B", "e", "t", "a", " ", "n", "e", "w", "s" >>,
            << "<", "i", ">", "o", "n", "<", "/", "i", ">", " ", "F", "O", "R", "M", " ",
               "8", "-", "K" >>,
            <<>>,
            << "a", "4" >>)
\* A denylisted phrase only across the end of the title and the start of the teaser
AcrossArticle ==
    Article(<< "A", "c", "m", "e", " ", "f", "i", "l", "e", "s" >>,
            << "p", "r", "o", "s", "p", "e", "c", "t", "u", "s", " ", "d", "u", "e" >>,
            <<>>,
            << "a", "5" >>)
\* Tags in the teaser
TaggedTeaserArticle ==
    Article(<< "G", "a", "m", "m", "a" >>,
            << "<", "i", ">", "u", "p", "<", "/", "i", ">", " ", "5", "%" >>,
            << "<", "p", ">", "B", "o", "d", "y", "<", "/", "p", ">" >>,
            << "a", "6" >>)

\* What the feed serves in the runs of the other specifications
SampleFeed == << PlainArticle >>


---------------------------------------------------------------------------
(* main(): one run of the pipeline *)

\* Variants of MainOrder with one statement moved: the history update after
\* delivery, the history update before synthesis, verification before curation
MainOrderSaveLast ==
    << "planning", "retrieval", "curation", "verification",
       "load_history", "synthesis", "delivery", "history_update" >>
MainOrderSaveEarly ==
    << "planning", "retrieval", "curation", "verification",
       "load_history", "history_update", "synthesis", "delivery" >>
MainOrderVerifyFirst ==
    << "planning", "retrieval", "verification", "curation",
       "load_history", "synthesis", "history_update", "delivery" >>

\* The statements of main() after validation, in program order (lines 675-719)
MainOrder ==
    << "planning", "retrieval", "curation", "verification",
       "load_history", "synthesis", "history_update", "delivery" >>

\* The statement that follows stage in main(); "return" after the last one
After(stage) ==
    LET i == CHOOSE j \in 1..Len(MainOrder) : MainOrder[j] = stage
    IN  IF i < Len(MainOrder) THEN MainOrder[i + 1] ELSE "return"

\* A variant of Missing whose list of names lacks TAVILY_API_KEY
MissingButTavily(env) == {v \in RequiredVars \ {"TAVILY_API_KEY"} : v \notin env}

\* Lines 662-665: the required variables that are not set
Missing(env) == {v \in RequiredVars : v \notin env}

\* The empty mapping (a dict with no keys)
EmptyMap == <<>>

Started(stage)  == <<"start", stage>>
Finished(stage) == <<"end", stage>>

\* The state when the process starts, history.json being file
InitWith(env, file) ==
    /\ environ = env
    /\ benzinga = SampleFeed
    /\ pc = "validate"
    /\ exitCode = -1
    /\ crashed = "no"
    /\ historyFile = file
    /\ historyFile0 = file
    /\ mainstream_queries = <<>>
    /\ alpha_queries = <<>>
    /\ search_results = EmptyMap
    /\ output_text = <<>>
    /\ context = <<>>
    /\ analysis = EmptyAnalysis
    /\ additional = EmptyMap
    /\ history = DefaultHistory
    /\ briefing = <<>>
    /\ chunks = <<>>
    /\ sent = <<>>
    /\ result = "none"
    /\ calls = <<>>
    /\ outcomes = EmptyMap
    /\ fileOps = <<>>
    /\ trace = <<>>

Init ==
    \E env \in SUBSET (RequiredVars \cup OptionalVars), file \in HistoryFiles :
        InitWith(env, file)

\* An exception escapes main() during stage: the interpreter exits with status 1
Crash(stage) ==
    /\ crashed' = stage
    /\ pc' = "exited"
    /\ exitCode' = 1

\* Lines 661-673: validation of the environment
Validate ==
    /\ pc = "validate"
    /\ IF Missing(environ) # {}
       THEN /\ pc' = "exited"                 \* return False; exit(1)
            /\ exitCode' = 1
       ELSE /\ pc' = MainOrder[1]
            /\ exitCode' = exitCode
    /\ UNCHANGED <<environ, benzinga, context, output_text, outcomes,
                   crashed, historyFile, historyFile0, mainstream_queries,
                   alpha_queries, search_results, analysis, additional, history,
                   briefing, chunks, sent, result, calls, fileOps, trace>>

\* Line 677: stage0_generate_queries; the request (lines 90-111) is outside the try
Stage0 ==
    /\ pc = "planning"
    /\ \E resp \in PlannerResponses :
        /\ calls' = Append(calls, <<"reasoning", "planning">>)
        /\ outcomes' = Ended("planning", resp) @@ outcomes
        /\ IF resp.error
           THEN /\ Crash("planning")
                /\ trace' = Append(trace, Started("planning"))
                /\ UNCHANGED <<mainstream_queries, alpha_queries>>
           ELSE /\ mainstream_queries' = stage0_parse(resp.text).mainstream
                /\ alpha_queries' = stage0_parse(resp.text).alpha
                /\ trace' = trace \o <<Started("planning"), Finished("planning")>>
                /\ pc' = After("planning")
                /\ UNCHANGED <<crashed, exitCode>>
    /\ UNCHANGED <<environ, benzinga, context, output_text, historyFile, historyFile0, search_results,
                   analysis, additional, history, briefing, chunks, sent, result,
                   fileOps>>

\* The outcomes in which the searches all end alike, and the feed pull ends
\* in a way of its own
UniformOutcomes(mq, aq, env) ==
    { [n \in Stage1Requests(mq, aq, env) |-> IF n = "benzinga_pro" THEN b ELSE o] :
        o \in {"timeout", "hit"}, b \in {"timeout", "hit"} }

\* Lines 687-689: stage1_tavily_searches, its requests ending in one of the
\* ways of choices
Stage1With(choices) ==
    /\ pc = "retrieval"
    /\ \E outcome \in choices :
        /\ outcomes' = outcome @@ outcomes
        /\ IF stage1_raises(mainstream_queries, alpha_queries, outcome, environ)
           THEN /\ Crash("retrieval")
                /\ trace' = Append(trace, Started("retrieval"))
                /\ UNCHANGED search_results
           ELSE /\ search_results' = stage1_tavily_searches(mainstream_queries,
                                         alpha_queries, outcome, environ)
                /\ trace' = trace \o <<Started("retrieval"), Finished("retrieval")>>
                /\ pc' = After("retrieval")
                /\ UNCHANGED <<crashed, exitCode>>
    /\ calls' = calls \o Stage1Calls(mainstream_queries, alpha_queries, environ)
    /\ UNCHANGED <<environ, benzinga, context, output_text, historyFile, historyFile0,
                   mainstream_queries, alpha_queries, analysis, additional, history,
                   briefing, chunks, sent, result, fileOps>>

Stage1 == Stage1With(UniformOutcomes(mainstream_queries, alpha_queries, environ))

\* Lines 693-701: stage2_first_pass, the curator request being answered with
\* one of answers; then main() reads analysis with .get
Stage2With(answers) ==
    /\ pc = "curation"
    /\ context' = context_parts(search_results,
                                SearchNames(mainstream_queries, alpha_queries))
    /\ \E resp \in answers :
        /\ calls' = Append(calls, <<"reasoning", "curation">>)
        /\ outcomes' = Ended("curation", resp) @@ outcomes
        /\ IF resp.error
           THEN /\ Crash("curation")
                /\ trace' = Append(trace, Started("curation"))
                /\ UNCHANGED <<output_text, analysis>>
           ELSE /\ output_text' = resp.text
                /\ analysis' = stage2_first_pass(resp.text)
                /\ IF stage2_first_pass(resp.text).type # "object"
                   THEN /\ Crash("curation")          \* analysis.get (line 694)
                        /\ trace' = Append(trace, Started("curation"))
                   ELSE /\ trace' = trace \o <<Started("curation"), Finished("curation")>>
                        /\ pc' = After("curation")
                        /\ UNCHANGED <<crashed, exitCode>>
    /\ UNCHANGED <<environ, benzinga, historyFile, historyFile0, mainstream_queries,
                   alpha_queries, search_results, additional, history, briefing,
                   chunks, sent, result, fileOps>>

Stage2 == Stage2With(CuratorResponses)

\* Line 705: stage3_verify_and_deepen
Stage3 ==
    /\ pc = "verification"
    /\ calls' = calls \o Stage3Calls(analysis)
    /\ IF FirstMalformed(analysis) # 0
       THEN /\ Crash("verification")
            /\ trace' = Append(trace, Started("verification"))
            /\ UNCHANGED <<additional, outcomes>>
       ELSE /\ \E outcome \in [SearchedDeep(analysis) \cup SearchedVerify(analysis)
                                 -> FollowUpOutcomes] :
                /\ additional' = stage3_verify_and_deepen(analysis, outcome)
                /\ outcomes' = outcome @@ outcomes
            /\ trace' = trace \o <<Started("verification"), Finished("verification")>>
            /\ pc' = After("verification")
            /\ UNCHANGED <<crashed, exitCode>>
    /\ UNCHANGED <<environ, benzinga, context, output_text, historyFile, historyFile0,
                   mainstream_queries, alpha_queries, search_results, analysis,
                   history, briefing, chunks, sent, result, fileOps>>

\* Line 708: load_history
LoadHistory ==
    /\ pc = "load_history"
    /\ fileOps' = Append(fileOps, "read")
    /\ LET r == load_history(historyFile)
       IN  IF r.raised # "no"
           THEN /\ Crash("load_history")
                /\ trace' = Append(trace, Started("load_history"))
                /\ UNCHANGED history
           ELSE /\ history' = r.value
                /\ trace' = trace \o <<Started("load_history"), Finished("load_history")>>
                /\ pc' = After("load_history")
                /\ UNCHANGED <<crashed, exitCode>>
    /\ UNCHANGED <<environ, benzinga, context, output_text, outcomes,
                   historyFile, historyFile0, mainstream_queries,
                   alpha_queries, search_results, analysis, additional, briefing,
                   chunks, sent, result, calls>>

\* Line 712: stage4_final_synthesis; the request (lines 582-614) is not guarded
Stage4 ==
    /\ pc = "synthesis"
    /\ calls' = Append(calls, <<"reasoning", "synthesis">>)
    /\ \/ /\ Crash("synthesis")
          /\ outcomes' = Ended("synthesis", Raised) @@ outcomes
          /\ trace' = Append(trace, Started("synthesis"))
          /\ UNCHANGED briefing
       \/ /\ \E text \in BriefingSamples : briefing' = text
          /\ outcomes' = Ended("synthesis", Answered(<<>>)) @@ outcomes
          /\ trace' = trace \o <<Started("synthesis"), Finished("synthesis")>>
          /\ pc' = After("synthesis")
          /\ UNCHANGED <<crashed, exitCode>>
    /\ UNCHANGED <<environ, benzinga, context, output_text, historyFile, historyFile0,
                   mainstream_queries, alpha_queries, search_results, analysis,
                   additional, history, chunks, sent, result, fileOps>>

\* A variant that keeps what the file held and adds the new record's entries
SaveHistoryAppending ==
    /\ pc = "history_update"
    /\ LET old == load_history(historyFile).value.members
           new == save_history(briefing, "now").members
       IN  historyFile' = FileWith(TextOf(HistoryRecord("now",
                              old.stories \o new.stories, old.tickers \o new.tickers)))
    /\ fileOps' = Append(fileOps, "write")
    /\ trace' = trace \o <<Started("history_update"), Finished("history_update")>>
    /\ pc' = After("history_update")
    /\ UNCHANGED <<environ, benzinga, context, output_text, outcomes,
                   exitCode, crashed, historyFile0, mainstream_queries,
                   alpha_queries, search_results, analysis, additional, history,
                   briefing, chunks, sent, result, calls>>

\* Line 715, lines 54-78: save_history opens history.json with mode "w" and
\* dumps one record
SaveHistory ==
    /\ pc = "history_update"
    /\ historyFile' = FileWith(TextOf(save_history(briefing, "now")))
    /\ fileOps' = Append(fileOps, "write")
    /\ trace' = trace \o <<Started("history_update"), Finished("history_update")>>
    /\ pc' = After("history_update")
    /\ UNCHANGED <<environ, benzinga, context, output_text, outcomes,
                   exitCode, crashed, historyFile0, mainstream_queries,
                   alpha_queries, search_results, analysis, additional, history,
                   briefing, chunks, sent, result, calls>>

\* Line 719, lines 622-644: send_telegram_message builds the texts to post
Send ==
    /\ pc = "delivery"
    /\ chunks' = TextsToPost(briefing)
    /\ trace' = Append(trace, Started("delivery"))
    /\ pc' = "posting"
    /\ UNCHANGED <<environ, benzinga, context, output_text, outcomes,
                   exitCode, crashed, historyFile, historyFile0,
                   mainstream_queries, alpha_queries, search_results, analysis,
                   additional, history, briefing, sent, result, calls, fileOps>>

\* Lines 631, 647-648: one requests.post; a timeout raises out of main()
Post ==
    /\ pc = "posting"
    /\ chunks # <<>>
    /\ \E answer \in PostAnswers :
        /\ sent' = Append(sent, [text |-> Head(chunks), answer |-> answer])
        /\ IF answer = "timeout"
           THEN /\ Crash("delivery")
                /\ UNCHANGED <<chunks, result>>
           ELSE /\ chunks' = Tail(chunks)
                /\ result' = answer
                /\ UNCHANGED <<pc, crashed, exitCode>>
    /\ calls' = Append(calls, <<"telegram", "sendMessage">>)
    /\ UNCHANGED <<environ, benzinga, context, output_text, outcomes,
                   historyFile, historyFile0, mainstream_queries,
                   alpha_queries, search_results, analysis, additional, history,
                   briefing, fileOps, trace>>

\* Lines 632, 649: send_telegram_message returns the answer to its last post
Return ==
    /\ pc = "posting"
    /\ chunks = <<>>
    /\ trace' = Append(trace, Finished("delivery"))
    /\ pc' = After("delivery")
    /\ UNCHANGED <<environ, benzinga, context, output_text, outcomes,
                   exitCode, crashed, historyFile, historyFile0,
                   mainstream_queries, alpha_queries, search_results, analysis,
                   additional, history, briefing, chunks, sent, result, calls, fileOps>>

\* Lines 721-731: main() returns result.get("ok"), which decides the exit code
MainReturn ==
    /\ pc = "return"
    /\ exitCode' = IF result = "accepted" THEN 0 ELSE 1
    /\ pc' = "exited"
    /\ UNCHANGED <<environ, benzinga, context, output_text, outcomes,
                   crashed, historyFile, historyFile0, mainstream_queries,
                   alpha_queries, search_results, analysis, additional, history,
                   briefing, chunks, sent, result, calls, fileOps, trace>>

Next ==
    \/ Validate
    \/ Stage0
    \/ Stage1
    \/ Stage2
    \/ Stage3
    \/ LoadHistory
    \/ Stage4
    \/ SaveHistory
    \/ Send
    \/ Post
    \/ Return
    \/ MainReturn

Spec == Init /\ [][Next]_vars

---------------------------------------------------------------------------
(* The chunking transform on every text up to MaxMsgLen *)

\* The events of the statements of main() before stage, all of them completed
RECURSIVE EventsBefore(_, _)
EventsBefore(stage, i) ==
    IF MainOrder[i] = stage THEN <<>>
    ELSE <<Started(MainOrder[i]), Finished(MainOrder[i])>> \o EventsBefore(stage, i + 1)

\* main() about to deliver the briefing text: the run found no history file, the
\* planner fell back to the default queries, every search failed and the
\* curator's answer held no payload
InitChunk ==
    \E text \in TextsUpTo(ChunkAlphabet, MaxMsgLen) :
        /\ environ = RequiredVars
        /\ benzinga = SampleFeed
        /\ pc = "delivery"
        /\ exitCode = -1
        /\ crashed = "no"
        /\ historyFile = FileWith(TextOf(save_history(text, "now")))
        /\ historyFile0 = NoFile
        /\ mainstream_queries = DefaultMainstream
        /\ alpha_queries = DefaultAlpha
        /\ search_results =
             stage1_tavily_searches(DefaultMainstream, DefaultAlpha,
                 [n \in Stage1Requests(DefaultMainstream, DefaultAlpha, RequiredVars)
                    |-> "timeout"], RequiredVars)
        /\ output_text = << "w" >>
        /\ context = context_parts(search_results,
                                   SearchNames(mainstream_queries, alpha_queries))
        /\ analysis = stage2_first_pass(<< "w" >>)
        /\ additional = EmptyMap
        /\ history = DefaultHistory
        /\ briefing = text
        /\ chunks = <<>>
        /\ sent = <<>>
        /\ result = "none"
        /\ calls = << <<"reasoning", "planning">> >>
                   \o Stage1Calls(DefaultMainstream, DefaultAlpha, RequiredVars)
                   \o << <<"reasoning", "curation">>, <<"reasoning", "synthesis">> >>
        /\ outcomes = [n \in Stage1Requests(DefaultMainstream, DefaultAlpha, RequiredVars)
                         |-> "timeout"]
                      @@ [n \in {"planning", "curation", "synthesis"} |-> "answered"]
        /\ fileOps = <<"read", "write">>
        /\ trace = EventsBefore("delivery", 1)

NextChunk ==
    \/ Send
    \/ Post
    \/ Return
    \/ MainReturn

SpecChunk == InitChunk /\ [][NextChunk]_vars

---------------------------------------------------------------------------
(* stage2_first_pass on every answer text up to MaxCuratorLen *)

MaxCuratorLen == 6

CuratorAlphabet == ProseChars \cup {"3", "d", "f"}

\* Entries stand inside a payload only: what they stand for is JSON only there
WellPlaced(x) ==
    \A i \in 1..Len(x) :
        x[i] \in EntryChars =>
            \E lo \in 1..(i - 1), hi \in (i + 1)..Len(x) :
                /\ x[lo] = "{"
                /\ x[hi] = "}"
                /\ IsBody(SubSeq(x, lo + 1, hi - 1))

CuratorTexts == {x \in TextsUpTo(CuratorAlphabet, MaxCuratorLen) : WellPlaced(x)}

\* main() about to run the curator: the run found no history file, the
\* planner fell back to the default queries and every search timed out
InitCurator ==
    /\ environ = RequiredVars
    /\ benzinga = SampleFeed
    /\ pc = "curation"
    /\ exitCode = -1
    /\ crashed = "no"
    /\ historyFile = NoFile
    /\ historyFile0 = NoFile
    /\ mainstream_queries = DefaultMainstream
    /\ alpha_queries = DefaultAlpha
    /\ search_results =
         stage1_tavily_searches(DefaultMainstream, DefaultAlpha,
             [n \in Stage1Requests(DefaultMainstream, DefaultAlpha, RequiredVars)
                |-> "timeout"], RequiredVars)
    /\ output_text = <<>>
    /\ context = <<>>
    /\ analysis = EmptyAnalysis
    /\ additional = EmptyMap
    /\ history = DefaultHistory
    /\ briefing = <<>>
    /\ chunks = <<>>
    /\ sent = <<>>
    /\ result = "none"
    /\ calls = << <<"reasoning", "planning">> >>
               \o Stage1Calls(DefaultMainstream, DefaultAlpha, RequiredVars)
    /\ outcomes = [n \in Stage1Requests(DefaultMainstream, DefaultAlpha, RequiredVars)
                     |-> "timeout"]
                  @@ [n \in {"planning"} |-> "answered"]
    /\ fileOps = <<>>
    /\ trace = EventsBefore("curation", 1)

\* The curator request raises, or is answered with any of the texts
Stage2Texts == Stage2With({Unreachable} \cup {Answered(x) : x \in CuratorTexts})

NextCurator ==
    \/ Stage2Texts

SpecCurator == InitCurator /\ [][NextCurator]_vars

---------------------------------------------------------------------------
(* stage1_tavily_searches with each request ending in a way of its own *)

\* The most query strings the planner's answer holds here, both lists together
MaxPlanned == 1

\* The planner's answers here: an object with m mainstream and a alpha queries
PlannedQueries ==
    { stage0_parse(TextOf(JObject([k \in {"mainstream", "alpha"} |->
          IF k = "mainstream" THEN Take(GptQueryPool, m)
          ELSE SubSeq(GptQueryPool, m + 1, m + a)]))) :
        m \in 0..MaxPlanned, a \in 0..MaxPlanned }

\* Every way the requests of stage1 may end
AllOutcomes(mq, aq, env) ==
    LET searches == [Range(SearchNames(mq, aq)) -> SearchOutcomes]
    IN  IF "BENZINGA_API_KEY" \in env
        THEN {("benzinga_pro" :> b) @@ o : o \in searches, b \in FeedOutcomes}
        ELSE searches

\* main() about to run the searches: the run found no history file and the
\* planner returned the queries of its answer
InitRetrieval ==
    \E env \in {RequiredVars, RequiredVars \cup OptionalVars}, planned \in PlannedQueries :
        /\ Len(planned.mainstream) + Len(planned.alpha) <= MaxPlanned
        /\ environ = env
        /\ benzinga = SampleFeed
        /\ pc = "retrieval"
        /\ exitCode = -1
        /\ crashed = "no"
        /\ historyFile = NoFile
        /\ historyFile0 = NoFile
        /\ mainstream_queries = planned.mainstream
        /\ alpha_queries = planned.alpha
        /\ search_results = EmptyMap
        /\ output_text = <<>>
        /\ context = <<>>
        /\ analysis = EmptyAnalysis
        /\ additional = EmptyMap
        /\ history = DefaultHistory
        /\ briefing = <<>>
        /\ chunks = <<>>
        /\ sent = <<>>
        /\ result = "none"
        /\ calls = << <<"reasoning", "planning">> >>
        /\ outcomes = [n \in {"planning"} |-> "answered"]
        /\ fileOps = <<>>
        /\ trace = EventsBefore("retrieval", 1)

Stage1Each == Stage1With(AllOutcomes(mainstream_queries, alpha_queries, environ))

NextRetrieval ==
    \/ Stage1Each

SpecRetrieval == InitRetrieval /\ [][NextRetrieval]_vars

---------------------------------------------------------------------------
(* stage3_verify_and_deepen on payloads of every size up to MaxDeep, MaxFact *)

\* The most targets the curator's answer holds in dig_deeper and in fact_check
MaxDeep == 5
MaxFact == 4

\* The payload texts: any number of deep-dive targets, with or without a
\* query, and of fact-check targets
VerifierTexts ==
    { << "{" >> \o deep \o fact \o << "}" >> :
        deep \in TextsUpTo({"d", "b"}, MaxDeep), fact \in TextsUpTo({"f"}, MaxFact) }

\* main() about to run the verifier: the run found no history file, the
\* planner fell back to the default queries, every search timed out and the
\* curator answered with a payload
InitVerify ==
    \E x \in VerifierTexts :
        /\ environ = RequiredVars
        /\ benzinga = SampleFeed
        /\ pc = "verification"
        /\ exitCode = -1
        /\ crashed = "no"
        /\ historyFile = NoFile
        /\ historyFile0 = NoFile
        /\ mainstream_queries = DefaultMainstream
        /\ alpha_queries = DefaultAlpha
        /\ search_results =
             stage1_tavily_searches(DefaultMainstream, DefaultAlpha,
                 [n \in Stage1Requests(DefaultMainstream, DefaultAlpha, RequiredVars)
                    |-> "timeout"], RequiredVars)
        /\ output_text = x
        /\ context = context_parts(search_results,
                                   SearchNames(mainstream_queries, alpha_queries))
        /\ analysis = stage2_first_pass(x)
        /\ additional = EmptyMap
        /\ history = DefaultHistory
        /\ briefing = <<>>
        /\ chunks = <<>>
        /\ sent = <<>>
        /\ result = "none"
        /\ calls = << <<"reasoning", "planning">> >>
                   \o Stage1Calls(DefaultMainstream, DefaultAlpha, RequiredVars)
                   \o << <<"reasoning", "curation">> >>
        /\ outcomes = [n \in Stage1Requests(DefaultMainstream, DefaultAlpha, RequiredVars)
                         |-> "timeout"]
                      @@ [n \in {"planning", "curation"} |-> "answered"]
        /\ fileOps = <<>>
        /\ trace = EventsBefore("verification", 1)

NextVerify ==
    \/ Stage3

SpecVerify == InitVerify /\ [][NextVerify]_vars

---------------------------------------------------------------------------
(* SpecSave: save_history on the final text of a run that follows another run *)

MaxPieces == 2

\* a line whose bold span holds a colon and more than 15 characters
ColonInsideLine ==
    << "*", "*", "F", "e", "d", " ", "c", "u", "t", "s", " ", "r", "a", "t", "e", "s", ":",
           " ", "2", "5", "b", "p", "*", "*", NL >>
\* a numbered-story line written as bold headline, colon, text
ColonAfterLine ==
    << "*", "*", "H", "e", "a", "d", "l", "i", "n", "e", "*", "*", ":", " ", "t", "e", "x",
           "t", NL >>
\* a bold span with a colon and no more than 15 characters
ShortBoldWords ==
    << "*", "*", "O", "i", "l", ":", " ", "u", "p", "*", "*", " " >>
\* a marked word in lower case
LowerTicker ==
    << "$", "a", "a", "p", "l", " " >>
\* a marked word with trailing punctuation
PunctTicker ==
    << "$", "M", "S", "F", "T", ".", " " >>
\* the same letters without the marker
BareWord ==
    << "a", "a", "p", "l", " " >>
\* a marked word of more than five letters
LongTicker ==
    << "$", "T", "O", "O", "L", "O", "N", "G", " " >>

BriefingPieces == {ColonInsideLine, ColonAfterLine, ShortBoldWords, LowerTicker,
                   PunctTicker, BareWord, LongTicker}

\* The final texts: up to n pieces, one after the other
RECURSIVE PiecesUpTo(_)
PiecesUpTo(n) ==
    IF n = 0 THEN {<<>>}
    ELSE PiecesUpTo(n - 1)
         \cup {p \o t : p \in BriefingPieces, t \in PiecesUpTo(n - 1)}

\* The final texts of the run before
EarlierBriefings == PiecesUpTo(1)

\* main() about to call save_history: the run before this one saved its own
\* final text, this run read that record, and the synthesis returned a text
InitSave ==
    \E earlier \in EarlierBriefings, text \in PiecesUpTo(MaxPieces) :
        /\ environ = RequiredVars
        /\ benzinga = SampleFeed
        /\ pc = "history_update"
        /\ exitCode = -1
        /\ crashed = "no"
        /\ historyFile0 = FileWith(TextOf(save_history(earlier, "earlier")))
        /\ historyFile = historyFile0
        /\ mainstream_queries = DefaultMainstream
        /\ alpha_queries = DefaultAlpha
        /\ search_results =
             stage1_tavily_searches(DefaultMainstream, DefaultAlpha,
                 [n \in Stage1Requests(DefaultMainstream, DefaultAlpha, RequiredVars)
                    |-> "timeout"], RequiredVars)
        /\ output_text = << "w" >>
        /\ context = context_parts(search_results,
                                   SearchNames(mainstream_queries, alpha_queries))
        /\ analysis = stage2_first_pass(<< "w" >>)
        /\ additional = EmptyMap
        /\ history = save_history(earlier, "earlier")
        /\ briefing = text
        /\ chunks = <<>>
        /\ sent = <<>>
        /\ result = "none"
        /\ calls = << <<"reasoning", "planning">> >>
                   \o Stage1Calls(DefaultMainstream, DefaultAlpha, RequiredVars)
                   \o << <<"reasoning", "curation">>, <<"reasoning", "synthesis">> >>
        /\ outcomes = [n \in Stage1Requests(DefaultMainstream, DefaultAlpha, RequiredVars)
                         |-> "timeout"]
                      @@ [n \in {"planning", "curation", "synthesis"} |-> "answered"]
        /\ fileOps = <<"read">>
        /\ trace = EventsBefore("history_update", 1)

NextSave == SaveHistory

SpecSave == InitSave /\ [][NextSave]_vars

---------------------------------------------------------------------------
(* SpecFeed: stage1 with the feed serving every list of up to MaxArticles articles *)

MaxArticles == 2

FeedArticles == {PlainArticle, TaggedArticle, FilingTitleArticle,
                 FilingTeaserArticle, AcrossArticle, TaggedTeaserArticle}

\* The lists the feed may serve: up to n articles, newest first
RECURSIVE FeedsUpTo(_)
FeedsUpTo(n) ==
    IF n = 0 THEN {<<>>}
    ELSE FeedsUpTo(n - 1)
         \cup {<<a>> \o rest : a \in FeedArticles, rest \in FeedsUpTo(n - 1)}

\* The ways the requests of stage1 end here: the searches all alike, the feed
\* pull in every way
FeedChoices(mq, aq, env) ==
    { [n \in Stage1Requests(mq, aq, env) |-> IF n = "benzinga_pro" THEN b ELSE o] :
        o \in {"timeout", "hit"}, b \in FeedOutcomes }

\* main() about to run the searches, the feed key being set: the run found no
\* history file and the planner fell back to the default queries
InitFeed ==
    \E served \in FeedsUpTo(MaxArticles) :
        /\ environ = RequiredVars \cup OptionalVars
        /\ benzinga = served
        /\ pc = "retrieval"
        /\ exitCode = -1
        /\ crashed = "no"
        /\ historyFile = NoFile
        /\ historyFile0 = NoFile
        /\ mainstream_queries = DefaultMainstream
        /\ alpha_queries = DefaultAlpha
        /\ search_results = EmptyMap
        /\ output_text = <<>>
        /\ context = <<>>
        /\ analysis = EmptyAnalysis
        /\ additional = EmptyMap
        /\ history = DefaultHistory
        /\ briefing = <<>>
        /\ chunks = <<>>
        /\ sent = <<>>
        /\ result = "none"
        /\ calls = << <<"reasoning", "planning">> >>
        /\ outcomes = [n \in {"planning"} |-> "answered"]
        /\ fileOps = <<>>
        /\ trace = EventsBefore("retrieval", 1)

Stage1Feed == Stage1With(FeedChoices(mainstream_queries, alpha_queries, environ))

NextFeed == Stage1Feed

SpecFeed == InitFeed /\ [][NextFeed]_vars

---------------------------------------------------------------------------
(* SpecMerge: the searches of stage1 completing in any order *)

\* main() about to run the searches, the feed key being set: the run found no
\* history file and the planner returned the queries of its answer, as many
\* alpha as mainstream ones, up to MaxPlanned of each kind
InitMerge ==
    \E planned \in PlannedQueries :
        /\ Len(planned.mainstream) = Len(planned.alpha)
        /\ environ = RequiredVars \cup OptionalVars
        /\ benzinga = SampleFeed
        /\ pc = "retrieval"
        /\ exitCode = -1
        /\ crashed = "no"
        /\ historyFile = NoFile
        /\ historyFile0 = NoFile
        /\ mainstream_queries = planned.mainstream
        /\ alpha_queries = planned.alpha
        /\ search_results = EmptyMap
        /\ output_text = <<>>
        /\ context = <<>>
        /\ analysis = EmptyAnalysis
        /\ additional = EmptyMap
        /\ history = DefaultHistory
        /\ briefing = <<>>
        /\ chunks = <<>>
        /\ sent = <<>>
        /\ result = "none"
        /\ calls = << <<"reasoning", "planning">> >>
        /\ outcomes = [n \in {"planning"} |-> "answered"]
        /\ fileOps = <<>>
        /\ trace = EventsBefore("retrieval", 1)

\* Lines 304-349 with the requests issued together: every search of the run
\* and the feed pull are under way
Dispatch ==
    /\ pc = "retrieval"
    /\ Started("retrieval") \notin Range(trace)
    /\ calls' = calls \o Stage1Calls(mainstream_queries, alpha_queries, environ)
    /\ trace' = Append(trace, Started("retrieval"))
    /\ UNCHANGED <<environ, benzinga, context, pc, exitCode, crashed, historyFile,
                   historyFile0, mainstream_queries, alpha_queries, search_results,
                   output_text, analysis, additional, history, briefing, chunks,
                   sent, result, outcomes, fileOps>>

\* One request completes, whichever, and its result is merged:
\* all_results[name] = results (lines 307, 312, 317, 331, 345), and for the feed
\* all_results["benzinga_pro"] = benzinga_results if there are any (351-352)
Complete ==
    /\ pc = "retrieval"
    /\ Started("retrieval") \in Range(trace)
    /\ \E n \in Stage1Requests(mainstream_queries, alpha_queries, environ)
                    \ DOMAIN outcomes,
          o \in {"timeout", "hit"} :
        /\ outcomes' = (n :> o) @@ outcomes
        /\ search_results' =
             IF n = "benzinga_pro"
             THEN IF fetch_benzinga_news(environ, o).results # <<>>
                  THEN [k \in DOMAIN search_results \cup {n} |->
                           IF k = n THEN fetch_benzinga_news(environ, o).results
                           ELSE search_results[k]]
                  ELSE search_results
             ELSE [k \in DOMAIN search_results \cup {n} |->
                      IF k = n THEN run_search(n, o).results ELSE search_results[k]]
    /\ UNCHANGED <<environ, benzinga, context, pc, exitCode, crashed, historyFile,
                   historyFile0, mainstream_queries, alpha_queries, output_text,
                   analysis, additional, history, briefing, chunks, sent, result,
                   calls, fileOps, trace>>

\* Line 354: every request has completed and stage1 returns the mapping
Merged ==
    /\ pc = "retrieval"
    /\ Started("retrieval") \in Range(trace)
    /\ Stage1Requests(mainstream_queries, alpha_queries, environ) \subseteq DOMAIN outcomes
    /\ trace' = Append(trace, Finished("retrieval"))
    /\ pc' = After("retrieval")
    /\ UNCHANGED <<environ, benzinga, context, exitCode, crashed, historyFile, historyFile0,
                   mainstream_queries, alpha_queries, search_results, output_text,
                   analysis, additional, history, briefing, chunks, sent, result,
                   calls, outcomes, fileOps>>

NextMerge ==
    \/ Dispatch
    \/ Complete
    \/ Merged

SpecMerge == InitMerge /\ [][NextMerge]_vars

---------------------------------------------------------------------------
(* SpecTags: stage2 on the mappings stage1 returns *)

\* main() about to call the curator: the run found no history file, the planner
\* answered with queries or fell back to the default ones, and the searches and
\* the feed pull ended one way or the other
InitTags ==
    \E env \in {RequiredVars, RequiredVars \cup OptionalVars},
       planned \in PlannedQueries \cup {FallbackQueries} :
        \E outcome \in UniformOutcomes(planned.mainstream, planned.alpha, env) :
            /\ environ = env
            /\ benzinga = SampleFeed
            /\ pc = "curation"
            /\ exitCode = -1
            /\ crashed = "no"
            /\ historyFile = NoFile
            /\ historyFile0 = NoFile
            /\ mainstream_queries = planned.mainstream
            /\ alpha_queries = planned.alpha
            /\ search_results =
                 stage1_tavily_searches(planned.mainstream, planned.alpha, outcome, env)
            /\ context = <<>>
            /\ output_text = <<>>
            /\ analysis = EmptyAnalysis
            /\ additional = EmptyMap
            /\ history = DefaultHistory
            /\ briefing = <<>>
            /\ chunks = <<>>
            /\ sent = <<>>
            /\ result = "none"
            /\ calls = << <<"reasoning", "planning">> >>
                       \o Stage1Calls(planned.mainstream, planned.alpha, env)
            /\ outcomes = outcome @@ [n \in {"planning"} |-> "answered"]
            /\ fileOps = <<>>
            /\ trace = EventsBefore("curation", 1)

NextTags == Stage2

SpecTags == InitTags /\ [][NextTags]_vars

---------------------------------------------------------------------------
(* Properties *)

IsPrefix(a, b) == Len(a) <= Len(b) /\ a = SubSeq(b, 1, Len(a))

\* Position of event e in the trace, 0 if it has not happened
At(e) == IF e \in Range(trace) THEN CHOOSE i \in 1..Len(trace) : trace[i] = e ELSE 0

\* The texts posted so far, in order
SentTexts == [i \in 1..Len(sent) |-> sent[i].text]

\* The message was split: its full form exceeds the limit
WasSplit == Len(full_message(briefing)) > max_len

\* send_telegram_message posted everything and returned
Delivered == Finished("delivery") \in Range(trace)

\* The four credentials a run requires
FourCredentials ==
    {"TELEGRAM_BOT_TOKEN", "TELEGRAM_CHAT_ID", "OPENAI_API_KEY", "TAVILY_API_KEY"}

\* Claim C1: when the full message (header plus text) exceeds the limit, every
\* chunk sent to the delivery channel is at most max_len characters long.
\* Violated: a line longer than max_len is sent as one chunk.
C1_ChunksWithinLimit ==
    WasSplit => \A i \in 1..Len(sent) : Len(sent[i].text) <= max_len

\* Claim C2: for a message that is split, joining the chunks sent, in order, with
\* one newline between consecutive chunks gives back the full message, empty
\* lines included.
\* Violated: an empty line that arrives when the current chunk is full is lost.
C2_ChunksRoundTrip ==
    (WasSplit /\ Delivered) => JoinLines(SentTexts) = full_message(briefing)

\* Claim C3: for a message that is split, every line of the full message lies
\* wholly inside exactly one chunk and the chunks keep the order of the lines:
\* the lines of the chunks, taken chunk after chunk, are the lines of the full
\* message.
\* Violated: the empty line lost at a chunk boundary (C2) lies in no chunk.
C3_LinesWholeAndInOrder ==
    (WasSplit /\ Delivered) =>
        Flatten([i \in 1..Len(sent) |-> SplitLines(sent[i].text)])
            = SplitLines(full_message(briefing))

\* history.json holds a record with stories and tickers
UsableHistory(file) ==
    /\ file.exists
    /\ file.content.wellformed
    /\ file.content.value.type = "object"
    /\ {"stories", "tickers"} \subseteq DOMAIN file.content.value.members

\* A record that reads, with the defaults load_history and its caller use, as
\* the empty default record {stories: [], tickers: [], last_run: None}
ReadsAsDefault(h) ==
    /\ h.type = "object"
    /\ Get(h, "stories", <<>>) = <<>>
    /\ Get(h, "tickers", <<>>) = <<>>
    /\ Get(h, "last_run", "None") = "None"

\* Claim C4: whenever history.json is missing, truncated, not parseable, or
\* parseable but not a record with stories and tickers, load_history raises
\* nothing and returns the empty default record.
\* Violated: a JSON list or number makes data.get raise AttributeError.
C4_LoadReturnsDefault ==
    (Started("load_history") \in Range(trace) /\ ~UsableHistory(historyFile0)) =>
        /\ crashed # "load_history"
        /\ Finished("load_history") \in Range(trace) => ReadsAsDefault(history)

\* Claim C5: with every required credential present, a run in which the channel
\* rejected a post (any chunk of a chunked briefing) exits 1, and a run exits 0
\* only if every post of the briefing was accepted.
\* Violated: only the answer to the last chunk is looked at.
C5_RejectionMeansExit1 ==
    (pc = "exited" /\ FourCredentials \subseteq environ) =>
        /\ (\E i \in 1..Len(sent) : sent[i].answer = "rejected") => exitCode = 1
        /\ exitCode = 0 =>
              /\ SentTexts = TextsToPost(briefing)
              /\ \A i \in 1..Len(sent) : sent[i].answer = "accepted"

\* Claim C6: a run that starts with one of the four required credentials missing
\* makes no request to the reasoning service, the search service, the
\* professional feed or the delivery channel, neither reads nor writes
\* history.json, and ends with exit code 1.
C6_MissingCredentialAborts ==
    ~(FourCredentials \subseteq environ) =>
        /\ calls = <<>>
        /\ fileOps = <<>>
        /\ historyFile = historyFile0
        /\ trace = <<>>
        /\ pc \in {"validate", "exited"}
        /\ pc = "exited" => exitCode = 1

\* A run with a credential missing has ended
C6_Witness == ~(FourCredentials \subseteq environ) /\ pc = "exited" /\ exitCode = 1

\* The record save_history writes for the run's briefing
RunRecord == FileWith(TextOf(save_history(briefing, "now")))

\* Claim C7 as stated: a run that ends in failure (main() returns False and the
\* process exits 1), because a credential is missing or because delivery is
\* rejected, leaves the history record as it was before the run.
\* Violated: save_history runs before delivery.
C7_FailedRunKeepsHistory ==
    (pc = "exited" /\ exitCode = 1 /\ crashed = "no") => historyFile = historyFile0

\* Claim C7, amended: the history record is overwritten only by a run that
\* passed credential validation and whose synthesis returned a briefing; a run
\* that fails because a credential is missing leaves the record as it was, and
\* a run whose delivery is rejected has already overwritten it with the record
\* of its own briefing.
C7_HistoryOverwrittenBeforeDelivery ==
    /\ historyFile # historyFile0 =>
          /\ FourCredentials \subseteq environ
          /\ Finished("synthesis") \in Range(trace)
    /\ ~(FourCredentials \subseteq environ) => historyFile = historyFile0
    /\ (\E i \in 1..Len(sent) : sent[i].answer = "rejected") =>
          historyFile = RunRecord /\ historyFile # historyFile0

\* A run failed because its delivery was rejected, after overwriting the record
C7_Witness ==
    /\ pc = "exited" /\ exitCode = 1 /\ crashed = "no"
    /\ \E i \in 1..Len(sent) : sent[i].answer = "rejected"
    /\ historyFile # historyFile0

\* Claim C8: in one run history.json is written at most once, and only after the
\* synthesis call has returned a briefing; a run that crashes in planning,
\* retrieval, curation, verification or synthesis writes no history and
\* delivers nothing.
C8_HistoryWrittenOnceAfterSynthesis ==
    /\ Cardinality({i \in 1..Len(fileOps) : fileOps[i] = "write"}) <= 1
    /\ "write" \in Range(fileOps) =>
          /\ Finished("synthesis") \in Range(trace)
          /\ At(Finished("synthesis")) < At(Started("history_update"))
    /\ crashed \in {"planning", "retrieval", "curation", "verification", "synthesis"} =>
          /\ "write" \notin Range(fileOps)
          /\ historyFile = historyFile0
          /\ sent = <<>>
          /\ \A i \in 1..Len(calls) : calls[i][1] # "telegram"

\* A run has written the history once and ended
C8_Witness ==
    /\ pc = "exited" /\ crashed = "no"
    /\ Cardinality({i \in 1..Len(fileOps) : fileOps[i] = "write"}) = 1

\* The stages of the pipeline, in the order they must start
PipelineStages ==
    << "planning", "retrieval", "curation", "verification", "synthesis",
       "history_update", "delivery" >>

\* start, end of each stage in turn
RECURSIVE StagedEvents(_)
StagedEvents(stages) ==
    IF stages = <<>> THEN <<>>
    ELSE <<Started(stages[1]), Finished(stages[1])>> \o StagedEvents(Tail(stages))

\* Claim C9: in a run that passes credential validation the stages start in the
\* order planning, retrieval, curation, verification, synthesis, history update,
\* delivery, none before the previous one has finished; the history record is
\* loaded before synthesis starts and saved only after synthesis has ended.
C9_StagesInOrder ==
    /\ IsPrefix(SelectSeq(trace, LAMBDA e : e[2] \in Range(PipelineStages)),
                StagedEvents(PipelineStages))
    /\ Started("synthesis") \in Range(trace) =>
          /\ "read" \in Range(fileOps)
          /\ 0 < At(Finished("load_history"))
          /\ At(Finished("load_history")) < At(Started("synthesis"))
    /\ "write" \in Range(fileOps) =>
          /\ 0 < At(Finished("synthesis"))
          /\ At(Finished("synthesis")) < At(Started("history_update"))
    /\ "read" \in Range(fileOps) => Started("load_history") \in Range(trace)

\* A run went through every stage
C9_Witness == pc = "exited" /\ Delivered /\ Len(trace) = 2 * Len(MainOrder)

\* Claim C10: stage0_generate_queries always returns 8 mainstream and 4 alpha
\* queries; an answer that is malformed or holds fewer than 12 query strings
\* gives the hardcoded default set.
\* Violated: a non-empty list of fewer than 12 queries is returned as it is.
C10_PlannerReturnsFixedSize ==
    Finished("planning") \in Range(trace) =>
        /\ Len(mainstream_queries) = 8 /\ Len(alpha_queries) = 4
        /\ \/ mainstream_queries = DefaultMainstream /\ alpha_queries = DefaultAlpha
           \/ mainstream_queries \o alpha_queries = Take(GptQueryPool, 12)

\* Claim C11: when the reasoning service cannot be reached during planning (the
\* request raises or times out), stage0_generate_queries returns the default
\* query set and the run goes on; the planner never aborts the run.
\* Violated: the request is made outside the try block, so its exception
\* escapes stage0_generate_queries and main().
C11_PlannerNeverAborts ==
    ("planning" \in DOMAIN outcomes /\ outcomes["planning"] = "raised") =>
        /\ crashed # "planning"
        /\ Finished("planning") \in Range(trace)
        /\ mainstream_queries = DefaultMainstream
        /\ alpha_queries = DefaultAlpha

\* The curator request was answered with a text
CuratorAnswered == "curation" \in DOMAIN outcomes /\ outcomes["curation"] = "answered"

\* Depth of brace nesting after each character, -1 once a "}" closes nothing
RECURSIVE BraceDepth(_, _)
BraceDepth(x, depth) ==
    IF depth < 0 \/ x = <<>> THEN depth
    ELSE BraceDepth(Tail(x), CASE Head(x) = "{" -> depth + 1
                               [] Head(x) = "}" -> depth - 1
                               [] OTHER -> depth)

\* Prose: words and braces that pair up, with no JSON object of its own
IsProseText(x) ==
    /\ \A i \in 1..Len(x) : x[i] \in {"w", "{", "}"}
    /\ BraceDepth(x, 0) = 0
    /\ \A i \in 1..(Len(x) - 1) : ~(x[i] = "{" /\ x[i + 1] = "}")

\* A valid payload: a text that is a JSON object
IsPayloadText(x) == Document(x).wellformed /\ Document(x).value.type = "object"

\* Claim C12: for every valid payload and every prose placed before and after
\* it, stage2_first_pass returns for the whole text the payload it returns
\* for the payload text alone.
\* Violated: the span from the first "{" to the last "}" of the text is what is
\* parsed, so braces in the prose hide the payload.
C12_ProseAroundPayloadIgnored ==
    CuratorAnswered =>
        \A i, j \in 1..Len(output_text) :
            LET before  == SubSeq(output_text, 1, i - 1)
                payload == SubSeq(output_text, i, j)
                after   == SubSeq(output_text, j + 1, Len(output_text))
            IN  (/\ i < j
                 /\ IsPayloadText(payload)
                 /\ IsProseText(before)
                 /\ IsProseText(after))
                => /\ analysis = stage2_first_pass(payload)
                   /\ crashed # "curation"

\* The text holds no JSON object anywhere
NoObjectIn(x) ==
    \A i, j \in 1..Len(x) : i < j => ~IsPayloadText(SubSeq(x, i, j))

\* Claim C13: for every answer text from which no structured object can be
\* recovered, a text that parses as a value other than an object included,
\* stage2_first_pass returns exactly the empty default and raises nothing, so
\* that the run goes on to verification with empty sequences.
\* Violated: a text that is a JSON number or list is returned as parsed, and
\* main() then fails on analysis.get.
C13_NoObjectGivesEmptyDefault ==
    (CuratorAnswered /\ NoObjectIn(output_text)) =>
        /\ analysis = EmptyAnalysis
        /\ crashed # "curation"
        /\ Finished("curation") \in Range(trace)

\* The names of the searches of a run: the fixed roster, then the planner's
\* queries by position
RosterNames ==
    {"global_markets", "geopolitics_macro", "fintwit_movers", "unusual_options",
     "insider_trades"}
DynamicNames ==
    {GptMainstreamNames[i] : i \in 1..Len(mainstream_queries)}
    \cup {GptAlphaNames[i] : i \in 1..Len(alpha_queries)}

\* The request named n was made and ended in one of the ways of kinds
EndedIn(n, kinds) == n \in DOMAIN outcomes /\ outcomes[n] \in kinds

\* Claim C14: run_search and fetch_benzinga_news let no error out and return
\* the empty sequence whenever the upstream call raises, times out, answers
\* with an error status or with data that cannot be read: retrieval is never
\* left by an exception, a failed search is recorded with no candidates and a
\* failed feed pull adds none.
C14_AdaptersReturnEmptyOnFailure ==
    Started("retrieval") \in Range(trace) =>
        /\ crashed # "retrieval"
        /\ Finished("retrieval") \in Range(trace)
        /\ \A n \in RosterNames \cup DynamicNames :
              EndedIn(n, {"timeout", "bad_response"}) =>
                  n \in DOMAIN search_results /\ search_results[n] = <<>>
        /\ EndedIn("benzinga_pro", {"timeout", "http_error", "bad_response"}) =>
              "benzinga_pro" \notin DOMAIN search_results

\* Retrieval ended although a search timed out, another answered with data
\* that cannot be read, and the feed answered with an error status
C14_Witness ==
    /\ Finished("retrieval") \in Range(trace)
    /\ EndedIn("global_markets", {"timeout"})
    /\ EndedIn("gpt_mainstream_0", {"bad_response"})
    /\ EndedIn("benzinga_pro", {"http_error"})
    /\ search_results["global_markets"] = <<>>

\* Claim C15: when retrieval has ended the merged mapping holds one entry for
\* every name of the fixed roster and every dynamic query name; the entry of a
\* failed search is the empty sequence, and every other entry is exactly what
\* the call of that name returned, whatever the other requests did.
C15_OneEntryPerSearchName ==
    Finished("retrieval") \in Range(trace) =>
        /\ RosterNames \cup DynamicNames \subseteq DOMAIN search_results
        /\ DOMAIN search_results \subseteq RosterNames \cup DynamicNames \cup {"benzinga_pro"}
        /\ \A n \in RosterNames \cup DynamicNames :
              /\ EndedIn(n, {"timeout", "bad_response", "none"}) => search_results[n] = <<>>
              /\ EndedIn(n, {"hit"}) => search_results[n] = << [origin |-> n] >>

\* Retrieval ended with a failed search next to searches that returned their
\* own candidates, a dynamic one among them
C15_Witness ==
    /\ Finished("retrieval") \in Range(trace)
    /\ EndedIn("fintwit_movers", {"timeout"})
    /\ EndedIn("insider_trades", {"hit"})
    /\ EndedIn("gpt_alpha_0", {"hit"})
    /\ search_results["gpt_alpha_0"] = << [origin |-> "gpt_alpha_0"] >>
    /\ search_results["fintwit_movers"] = <<>>

\* The requests made to the reasoning service, by stage
ReasoningStages == {"planning", "curation", "synthesis"}

\* Every search and feed request made so far failed
SearchOutage ==
    \A n \in DOMAIN outcomes \ ReasoningStages :
        outcomes[n] \in {"timeout", "http_error", "bad_response"}

\* The reasoning service answered every request made so far, the curator's
\* with a payload whose targets are objects
ReasoningWorks ==
    /\ \A n \in DOMAIN outcomes \cap ReasoningStages : outcomes[n] = "answered"
    /\ CuratorAnswered =>
          /\ IsPayloadText(output_text)
          /\ \A i \in 1..Len(output_text) : output_text[i] # "m"

\* The delivery channel accepted every post made so far
DeliveryWorks == \A i \in 1..Len(sent) : sent[i].answer = "accepted"

\* Claim C16: if every search and the feed pull fail while the reasoning
\* service and the delivery channel work, the run passes through curation,
\* verification, synthesis, history update and delivery, the curator receives
\* no candidates, and the process exits with status 0.
\* Violated: a history.json that holds JSON other than an object makes
\* load_history raise (claim C4), and the run ends with status 1 before
\* synthesis.
C16_SearchOutageStillDelivers ==
    (/\ pc = "exited"
     /\ FourCredentials \subseteq environ
     /\ SearchOutage
     /\ ReasoningWorks
     /\ DeliveryWorks)
    => /\ exitCode = 0
       /\ Range(StagedEvents(PipelineStages)) \subseteq Range(trace)
       /\ \A n \in DOMAIN search_results : search_results[n] = <<>>

\* Claim C17: no external call is retried. Each search name, each deep-dive and
\* fact-check target, the feed pull and each reasoning stage is requested at
\* most once in a run, however the request ends; only the delivery channel is
\* posted to once per chunk.
C17_NoRequestRepeated ==
    /\ \A i, j \in 1..Len(calls) :
          (i < j /\ calls[i] = calls[j]) => calls[i] = <<"telegram", "sendMessage">>
    /\ \A i \in 1..Len(calls) :
          calls[i][1] \in {"search", "benzinga", "reasoning", "telegram"}
    /\ Cardinality({i \in 1..Len(calls) : calls[i][1] = "reasoning"}) <= 3
    /\ Cardinality({i \in 1..Len(calls) : calls[i][1] = "benzinga"}) <= 1

\* A run ended after searches and a follow-up search timed out, the feed having
\* answered and every reasoning stage having been requested
C17_Witness ==
    /\ pc = "exited"
    /\ Delivered
    /\ EndedIn("global_markets", {"timeout"})
    /\ EndedIn("deep_0", {"timeout"})
    /\ EndedIn("verify_0", {"hit"})
    /\ EndedIn("benzinga_pro", {"hit"})
    /\ Cardinality({i \in 1..Len(calls) : calls[i][1] = "reasoning"}) = 3

\* The keys of the targets the caps allow: four deep dives, three fact checks
CappedDeepKeys   == {"deep_0", "deep_1", "deep_2", "deep_3"}
CappedVerifyKeys == {"verify_0", "verify_1", "verify_2"}

\* How many follow-up searches were requested for keys
Requested(keys) ==
    Cardinality({i \in 1..Len(calls) : calls[i][1] = "search" /\ calls[i][2] \in keys})

\* Claim C18: in the verifier a capped target whose follow-up search errors is
\* recorded in the mapping under its key as an empty result, so that the
\* mapping holds one entry for every capped target that was searched.
\* Violated: the except clauses only print, so an errored target has no entry.
C18_ErroredTargetRecordedEmpty ==
    Finished("verification") \in Range(trace) =>
        \A k \in CappedDeepKeys \cup CappedVerifyKeys :
            k \in DOMAIN outcomes =>
                /\ k \in DOMAIN additional
                /\ (k \in CappedDeepKeys /\ outcomes[k] = "timeout") =>
                      additional[k].results = <<>>
                /\ (k \in CappedVerifyKeys /\ outcomes[k] = "timeout") =>
                      additional[k].credible_sources = <<>>

\* Claim C19: for every fact-check target whose verification search completes,
\* the verified flag is true exactly when the search, restricted to the
\* credible domains, returned at least one result.
C19_VerifiedIffSourceFound ==
    \A k \in DOMAIN additional \cap Range(VerifyKeys) :
        /\ additional[k].verified <=> EndedIn(k, {"hit"})
        /\ additional[k].verified <=> Len(additional[k].credible_sources) >= 1
        /\ EndedIn(k, {"none"}) => ~additional[k].verified

\* The verifier ended with one claim verified by a source and another for which
\* the search completed without a result
C19_Witness ==
    /\ Finished("verification") \in Range(trace)
    /\ {"verify_0", "verify_1"} \subseteq DOMAIN additional
    /\ EndedIn("verify_0", {"hit"}) /\ additional["verify_0"].verified
    /\ EndedIn("verify_1", {"none"}) /\ ~additional["verify_1"].verified

\* Claim C20: whatever the lengths of the curator's dig_deeper and fact_check
\* lists, the verifier requests at most 4 deep-dive and at most 3 fact-check
\* searches, and its mapping holds at most 4 deep_* and at most 3 verify_*
\* entries.
C20_VerifierCaps ==
    /\ Requested(Range(DeepKeys)) <= 4
    /\ Requested(Range(VerifyKeys)) <= 3
    /\ Cardinality(DOMAIN additional \cap Range(DeepKeys)) <= 4
    /\ Cardinality(DOMAIN additional \cap Range(VerifyKeys)) <= 3
    /\ DOMAIN additional \subseteq CappedDeepKeys \cup CappedVerifyKeys

\* The verifier ended on lists longer than the caps, every search it made
\* having returned a result
C20_Witness ==
    /\ Finished("verification") \in Range(trace)
    /\ Len(Get(analysis, "dig_deeper", <<>>)) > 4
    /\ Len(Get(analysis, "fact_check", <<>>)) > 3
    /\ DOMAIN additional = CappedDeepKeys \cup CappedVerifyKeys
    /\ Requested(CappedDeepKeys) = 4
    /\ Requested(CappedVerifyKeys) = 3

\* The keys of the capped targets of the curator's answer that carry a query:
\* the "d" entries among its first four deep-dive entries, the first three
\* fact-check entries
QueriedDeep ==
    LET entries == SelectSeq(output_text, LAMBDA c : c \in {"d", "b", "m"})
        keys    == << "deep_0", "deep_1", "deep_2", "deep_3" >>
    IN  {keys[i] : i \in {j \in 1..4 : j <= Len(entries) /\ entries[j] = "d"}}
QueriedVerify ==
    LET entries == SelectSeq(output_text, LAMBDA c : c = "f")
        keys    == << "verify_0", "verify_1", "verify_2" >>
    IN  {keys[i] : i \in {j \in 1..3 : j <= Len(entries)}}

\* Some follow-up search failed
SomeFollowUpFailed ==
    \E k \in CappedDeepKeys \cup CappedVerifyKeys : EndedIn(k, {"timeout", "bad_response"})

\* Claim C21: in the verifier the failure of one target's search does not stop
\* the stage: every other capped target with a query is still searched and
\* recorded, and stage3_verify_and_deepen returns normally to main().
C21_FailedTargetDoesNotStopStage ==
    (Started("verification") \in Range(trace) /\ SomeFollowUpFailed) =>
        /\ crashed # "verification"
        /\ Finished("verification") \in Range(trace)
        /\ \A k \in QueriedDeep \cup QueriedVerify :
              /\ Requested({k}) = 1
              /\ k \in DOMAIN outcomes
              /\ EndedIn(k, {"none", "hit"}) => k \in DOMAIN additional
              /\ (k \in QueriedDeep /\ EndedIn(k, {"hit"})) =>
                    additional[k].results = << [origin |-> k] >>
              /\ (k \in QueriedVerify /\ EndedIn(k, {"hit"})) =>
                    additional[k].credible_sources = << [origin |-> k] >>

\* The verifier ended after the first deep-dive search and the first
\* fact-check search failed, the targets after them being recorded
C21_Witness ==
    /\ Finished("verification") \in Range(trace)
    /\ EndedIn("deep_0", {"timeout"}) /\ EndedIn("verify_0", {"timeout"})
    /\ EndedIn("deep_2", {"hit"}) /\ EndedIn("verify_1", {"hit"})
    /\ {"deep_2", "verify_1"} \subseteq DOMAIN additional
    /\ {"deep_0", "verify_0"} \cap DOMAIN additional = {}


\* What history.json holds, once it holds one record
Saved(file) == file.content.value.members
OneRecord(file) ==
    /\ file.exists
    /\ file.content.wellformed
    /\ file.content.value.type = "object"
    /\ DOMAIN file.content.value.members = {"last_run", "stories", "tickers"}
SaveDone == pc = "delivery" /\ fileOps = <<"read", "write">>

\* C22: of two successive save_history calls the record left in history.json
\* holds only the headlines and tickers derived from the second text, nothing
\* of the first text's record stays unless the second text yields it too, and
\* the file holds exactly one record after each call.
C22_SecondSaveReplacesFirst ==
    /\ OneRecord(historyFile0)
    /\ SaveDone =>
          /\ OneRecord(historyFile)
          /\ Saved(historyFile).stories = ExtractStories(briefing)
          /\ Saved(historyFile).tickers = ExtractTickers(briefing)
          /\ \A h \in Range(Saved(historyFile0).stories) :
                h \in Range(Saved(historyFile).stories)
                    => h \in Range(ExtractStories(briefing))
          /\ \A t \in Range(Saved(historyFile0).tickers) :
                t \in Range(Saved(historyFile).tickers)
                    => t \in Range(ExtractTickers(briefing))

\* The first text gave a headline and the second a different record: after the
\* second call the first text's headline is gone and the second's ticker is in
C22_Witness ==
    /\ SaveDone
    /\ Saved(historyFile0).stories # <<>>
    /\ Saved(historyFile0).tickers = <<>>
    /\ Saved(historyFile).stories = <<>>
    /\ Saved(historyFile).tickers # <<>>

\* The lines of a text with a bold-delimited span followed by a colon:
\* "**", at least one character, "**", ":"
BoldThenColon(line) ==
    \E i \in 1..Len(line), j \in 1..Len(line) :
        /\ i + 2 < j
        /\ j + 2 <= Len(line)
        /\ line[i] = "*" /\ line[i + 1] = "*"
        /\ line[j] = "*" /\ line[j + 1] = "*"
        /\ line[j + 2] = ":"
BoldThenColonLines(text) ==
    {n \in 1..Len(SplitLines(text)) : BoldThenColon(SplitLines(text)[n])}

\* C26: save_history records a headline for every line of the final text that
\* has a bold-delimited span followed by a colon, so a briefing with a line
\* written "**Headline**: text" yields at least one saved headline.
C26_BoldThenColonRecorded ==
    SaveDone =>
        Len(Saved(historyFile).stories) >= Cardinality(BoldThenColonLines(briefing))

\* The characters of a saved ticker, and the order of the saved list
IsUpperWord(t) ==
    /\ Len(t) >= 1
    /\ Len(t) <= 5
    /\ \A i \in 1..Len(t) : t[i] \in Range(UpperLetters)
FromMarkedWord(t, text) ==
    \E w \in Range(Words(text)) :
        /\ w[1] = "$"
        /\ \E i \in 1..Len(w), j \in 1..Len(w) : ToUpper(SubSeq(w, i, j)) = t
RECURSIVE Before(_, _)
Before(a, b) ==
    IF a = <<>> THEN b # <<>>
    ELSE IF b = <<>> THEN FALSE
    ELSE IF a[1] = b[1] THEN Before(Tail(a), Tail(b))
    ELSE \E i \in 1..Len(UpperLetters), j \in 1..Len(UpperLetters) :
            i < j /\ UpperLetters[i] = a[1] /\ UpperLetters[j] = b[1]

Pulled == Finished("retrieval") \in Range(trace) /\ EndedIn("benzinga_pro", {"hit"})
FeedOutput ==
    IF "benzinga_pro" \in DOMAIN search_results THEN search_results["benzinga_pro"]
    ELSE <<>>

\* A text holds a denylisted phrase, letter case aside
Denylisted(text) ==
    \E k \in 1..Len(SKIP_KEYWORDS) : Contains(SKIP_KEYWORDS[k], ToLower(text))

\* C23: every article of the feed whose title or teaser holds a denylisted
\* phrase, compared without regard to letter case, is absent from the
\* normalized output of fetch_benzinga_news.
C23_DenylistedArticlesAbsent ==
    Finished("retrieval") \in Range(trace) =>
        \A i \in 1..Len(benzinga) :
            (Denylisted(benzinga[i].title) \/ Denylisted(benzinga[i].teaser)) =>
                \A j \in 1..Len(FeedOutput) : FeedOutput[j].url # benzinga[i].url

\* The feed served a filing in upper case in the teaser before a plain article:
\* only the plain one is in the output
C23_Witness ==
    /\ Pulled
    /\ benzinga = << FilingTeaserArticle, PlainArticle >>
    /\ Len(FeedOutput) = 1
    /\ FeedOutput[1].url = PlainArticle.url

\* No "<" is left in a text
NoTag(text) == \A i \in 1..Len(text) : text[i] # "<"

\* C24: every article of the feed in which neither the title nor the teaser
\* holds a denylisted phrase is in the normalized output of
\* fetch_benzinga_news, in the order served, with the HTML tags stripped from
\* its title, teaser and body text.
C24_OtherArticlesPreserved ==
    Pulled =>
        LET kept == SelectSeq(benzinga,
                        LAMBDA a : ~Denylisted(a.title) /\ ~Denylisted(a.teaser))
        IN  /\ Len(FeedOutput) = Len(kept)
            /\ \A i \in 1..Len(FeedOutput) :
                  /\ FeedOutput[i].url = kept[i].url
                  /\ FeedOutput[i].title = clean_html(kept[i].title)
                  /\ NoTag(FeedOutput[i].title)
                  /\ NoTag(FeedOutput[i].content)


\* The names of the run's requests, and how those made so far ended
RunNames == SearchNames(mainstream_queries, alpha_queries)
Completed == DOMAIN outcomes \ {"planning"}

\* C25: the merged retrieval mapping does not depend on the order in which the
\* searches complete: the search names of one run (fixed roster,
\* gpt_mainstream_i, gpt_alpha_i, benzinga_pro) are pairwise distinct, no
\* result takes the place of another's, and whatever the order of completion
\* the mapping returned is the one the sequential run returns.
C25_MergeOrderIndependent ==
    /\ \A i, j \in 1..Len(RunNames) : i # j => RunNames[i] # RunNames[j]
    /\ "benzinga_pro" \notin Range(RunNames)
    /\ Started("retrieval") \in Range(trace) =>
          /\ DOMAIN search_results \subseteq Completed
          /\ Completed \ {"benzinga_pro"} \subseteq DOMAIN search_results
          /\ \A n \in Completed \ {"benzinga_pro"} :
                search_results[n] =
                    IF outcomes[n] = "hit" THEN << [origin |-> n] >> ELSE <<>>
    /\ Finished("retrieval") \in Range(trace) =>
          search_results =
              stage1_tavily_searches(mainstream_queries, alpha_queries,
                  [n \in Completed |-> outcomes[n]], environ)

\* The last search of the source's order has completed with a candidate while
\* the first has not completed yet
C25_Witness ==
    /\ Started("retrieval") \in Range(trace)
    /\ "gpt_mainstream_0" \in Completed
    /\ "gpt_alpha_0" \in DOMAIN search_results
    /\ search_results["gpt_alpha_0"] = << [origin |-> "gpt_alpha_0"] >>
    /\ "benzinga_pro" \in DOMAIN search_results
    /\ "global_markets" \notin Completed


\* The curator request has been made
CuratorAsked == \E i \in 1..Len(calls) : calls[i] = <<"reasoning", "curation">>

\* The tag each name of the fan-out is said to get
TagOfName(n) ==
    CASE n = "fintwit_movers" -> "SOCIAL/FINTWIT"
      [] n = "benzinga_pro" -> "BENZINGA PRO"
      [] n \in {"unusual_options", "insider_trades",
                "gpt_alpha_0", "gpt_alpha_1", "gpt_alpha_2", "gpt_alpha_3"} -> "ALPHA/EDGE"
      [] n \in {"global_markets", "geopolitics_macro",
                "gpt_mainstream_0", "gpt_mainstream_1", "gpt_mainstream_2",
                "gpt_mainstream_3", "gpt_mainstream_4", "gpt_mainstream_5",
                "gpt_mainstream_6", "gpt_mainstream_7"} -> "MAINSTREAM"

\* The tag chosen with precedence social, then feed, then alpha, else mainstream
HasAny(n, tags) == \E tag \in tags : Contains(tag, Chars(n))
TagByPrecedence(n) ==
    IF HasAny(n, SocialTags) THEN "SOCIAL/FINTWIT"
    ELSE IF HasAny(n, {BenzingaTag}) THEN "BENZINGA PRO"
    ELSE IF HasAny(n, AlphaTags) THEN "ALPHA/EDGE"
    ELSE "MAINSTREAM"

\* C28: in the curator request every search name of the merged mapping has
\* exactly one provenance tag, chosen with precedence social, then professional
\* feed, then alpha/edge, else mainstream; fintwit_movers is tagged social,
\* unusual_options, insider_trades and every gpt_alpha_i alpha/edge,
\* benzinga_pro professional feed, and global_markets, geopolitics_macro and
\* every gpt_mainstream_i mainstream.
C28_OneProvenanceTagPerName ==
    CuratorAsked =>
        /\ \A n \in DOMAIN search_results :
              Cardinality({i \in 1..Len(context) : context[i].category = n}) = 1
        /\ \A i \in 1..Len(context) :
              /\ context[i].category \in DOMAIN search_results
              /\ context[i].source_tag = TagOfName(context[i].category)
              /\ context[i].source_tag = TagByPrecedence(context[i].category)

\* The request was made for the mapping of a run with the twelve fallback
\* queries and articles from the feed: eighteen names, each with its tag
C28_Witness ==
    /\ CuratorAsked
    /\ Len(context) = 18
    /\ context[3] = [category |-> "fintwit_movers", source_tag |-> "SOCIAL/FINTWIT"]
    /\ context[17] = [category |-> "gpt_alpha_3", source_tag |-> "ALPHA/EDGE"]
    /\ context[18] = [category |-> "benzinga_pro", source_tag |-> "BENZINGA PRO"]

====
